---------------------------- MODULE Spec2Model ----------------------------
(***************************************************************************)
(* Forward-mode automatic differentiation over dual numbers                *)
(* (autodiff/forward/forward.hpp).                                         *)
(*                                                                         *)
(* A dual is a record [val, grad].  Expression trees are records that      *)
(* refer to the duals of the caller by name, as the C++ nodes hold         *)
(* references to lvalue operands; the reduction engine (assign,            *)
(* assignAdd, ...) is a family of recursive operators that thread a store  *)
(* (location -> dual) through the statements of each overload, one store   *)
(* update per C++ statement, so that aliasing between the target and the   *)
(* operands of the tree behaves as in the code.                            *)
(*                                                                         *)
(* Scalars (double) are modelled as exact rationals <<n, d>> extended with *)
(* the IEEE-754 non-finite values: <<1,0>> = +inf, <<-1,0>> = -inf,        *)
(* <<0,0>> = NaN.  Rounding and the sign of zero are not modelled.         *)
(***************************************************************************)
EXTENDS Integers, Sequences, FiniteSets, TLC

(***************************************************************************)
(* Bounds of the model.                                                    *)
(***************************************************************************)
MaxVal == 2
MaxGrad == 2

(***************************************************************************)
(* double: exact rationals with +inf, -inf, NaN.                           *)
(***************************************************************************)
Abs(i) == IF i < 0 THEN -i ELSE i

Sgn(i) == IF i < 0 THEN -1 ELSE IF i > 0 THEN 1 ELSE 0

RECURSIVE GCD(_, _)
GCD(a, b) == IF b = 0 THEN a ELSE GCD(b, a % b)

\* n/d in lowest terms with a positive denominator (d # 0)
Q(n, d) ==
    LET g == GCD(Abs(n), Abs(d))
        s == IF d < 0 THEN -1 ELSE 1
    IN  << (s * n) \div g, Abs(d) \div g >>

NaN == << 0, 0 >>
PInf == << 1, 0 >>
NInf == << -1, 0 >>
Zero == << 0, 1 >>
One == << 1, 1 >>

Num(i) == << i, 1 >>

IsFinite(a) == a[2] # 0

IsNaN(a) == a = NaN

\* a + b
QAdd(a, b) ==
    IF IsFinite(a) /\ IsFinite(b)
    THEN LET g == GCD(a[2], b[2])
         IN  Q(a[1] * (b[2] \div g) + b[1] * (a[2] \div g), (a[2] \div g) * b[2])
    ELSE IF IsNaN(a) \/ IsNaN(b) THEN NaN
    ELSE IF IsFinite(a) THEN b
    ELSE IF IsFinite(b) THEN a
    ELSE IF a = b THEN a ELSE NaN

\* -a
QNeg(a) == << -a[1], a[2] >>

\* a - b
QSub(a, b) == QAdd(a, QNeg(b))

\* a * b, common factors cancelled before multiplying
QMul(a, b) ==
    IF IsFinite(a) /\ IsFinite(b)
    THEN LET g1 == GCD(Abs(a[1]), b[2])
             g2 == GCD(Abs(b[1]), a[2])
         IN  << (a[1] \div g1) * (b[1] \div g2), (a[2] \div g2) * (b[2] \div g1) >>
    ELSE IF IsNaN(a) \/ IsNaN(b) THEN NaN
    ELSE IF a[1] = 0 \/ b[1] = 0 THEN NaN
    ELSE << Sgn(a[1]) * Sgn(b[1]), 0 >>

\* a / b
QDiv(a, b) ==
    IF IsNaN(a) \/ IsNaN(b) THEN NaN
    ELSE IF IsFinite(a) /\ IsFinite(b)
         THEN IF b[1] # 0 THEN QMul(a, << Sgn(b[1]) * b[2], Abs(b[1]) >>)
              ELSE IF a[1] = 0 THEN NaN ELSE << Sgn(a[1]), 0 >>
    ELSE IF IsFinite(a) THEN Zero
    ELSE IF IsFinite(b) THEN << a[1] * (IF b[1] < 0 THEN -1 ELSE 1), 0 >>
    ELSE NaN

\* a < b on finite values
QLess(a, b) == a[1] * b[2] < b[1] * a[2]

RECURSIVE PowNat(_, _)
PowNat(a, k) == IF k = 0 THEN One ELSE QMul(a, PowNat(a, k - 1))

\* std::pow(a, e) for an integral exponent e; pow(x, 0) is 1 for every x
PowQ(a, e) ==
    CASE e[2] = 1 /\ e[1] >= 0 -> PowNat(a, e[1])
      [] e[2] = 1 /\ e[1] < 0 -> QDiv(One, PowNat(a, -e[1]))

\* std::log(a): exact at 0, 1, +inf and outside the domain; elsewhere the
\* irrational value is represented by the rational 2(a-1)/(a+1), which has
\* the sign and the zero of log
LogQ(a) ==
    IF IsNaN(a) THEN NaN
    ELSE IF a = PInf THEN PInf
    ELSE IF a[1] < 0 THEN NaN
    ELSE IF a[1] = 0 THEN NInf
    ELSE QDiv(QMul(Num(2), QSub(a, One)), QAdd(a, One))


(***************************************************************************)
(* Duals and expression nodes.                                             *)
(***************************************************************************)
\* Dual<T, G>{val, grad}
Dual(v, g) == [val |-> v, grad |-> g]

\* Dual(const U& val) : val(val), grad(0)
DualOfNumber(c) == Dual(c, Zero)

\* a dual operand held by reference (an lvalue of the caller)
DualRef(v) == [k |-> "Dual", ref |-> v]

\* a dual operand held by value (a temporary owned by the node)
DualVal(d) == [k |-> "DualVal", d |-> d]

\* an arithmetic operand
Scalar(c) == [k |-> "Number", c |-> c]

UnaryExpr(op, r) == [k |-> "UnaryExpr", op |-> op, r |-> r]

BinaryExpr(op, l, r) == [k |-> "BinaryExpr", op |-> op, l |-> l, r |-> r]

NegExpr(r) == UnaryExpr("NegOp", r)

InvExpr(r) == UnaryExpr("InvOp", r)

AddExpr(l, r) == BinaryExpr("AddOp", l, r)

MulExpr(l, r) == BinaryExpr("MulOp", l, r)

PowExpr(l, r) == BinaryExpr("PowOp", l, r)

NumberDualMulExpr(l, r) == BinaryExpr("NumberDualMulOp", l, r)

isNumber(o) == o.k = "Number"

isDual(o) == o.k \in {"Dual", "DualVal"}

isUnaryExpr(o) == o.k = "UnaryExpr"

isNegExpr(o) == o.k = "UnaryExpr" /\ o.op = "NegOp"

isInvExpr(o) == o.k = "UnaryExpr" /\ o.op = "InvOp"

isAddExpr(o) == o.k = "BinaryExpr" /\ o.op = "AddOp"

isMulExpr(o) == o.k = "BinaryExpr" /\ o.op = "MulOp"

isPowExpr(o) == o.k = "BinaryExpr" /\ o.op = "PowOp"

isNumberDualMulExpr(o) == o.k = "BinaryExpr" /\ o.op = "NumberDualMulOp"

\* the dual a Dual operand denotes in store s
deref(s, o) == IF o.k = "Dual" THEN s[o.ref] ELSE o.d

(***************************************************************************)
(* The reduction engine.  s is the store, self the location of the target, *)
(* o the source, tmp the location of the caller's scratch dual.            *)
(***************************************************************************)
\* negate(self)
negate(s, self) ==
    LET s1 == [s EXCEPT ![self].val = QNeg(s[self].val)]
    IN  [s1 EXCEPT ![self].grad = QNeg(s1[self].grad)]

\* scale(self, scalar) that leaves grad as it is
scaleValOnly(s, self, c) == [s EXCEPT ![self].val = QMul(s[self].val, c)]

\* scale(self, scalar)
scale(s, self, c) ==
    LET s1 == [s EXCEPT ![self].val = QMul(s[self].val, c)]
    IN  [s1 EXCEPT ![self].grad = QMul(s1[self].grad, c)]

\* the names of the uninterpreted functions of <cmath>
CMath == << "sin", "cos", "tan", "asin", "acos", "atan", "exp", "log10", "sqrt" >>

\* the position of f in CMath
cmathIndex(f) == CHOOSE i \in 1..Len(CMath) : CMath[i] = f

\* the functions of <cmath> the table of apply calls.  abs is the absolute
\* value and log is LogQ; the others are left uninterpreted, each stood for
\* by an affine map of its own, (i + 1) * v + i for the i-th of CMath (no
\* identity between them holds)
std(f, v) ==
    IF f = "abs" THEN (IF IsNaN(v) THEN NaN ELSE << Abs(v[1]), v[2] >>)
    ELSE IF f = "log" THEN LogQ(v)
    ELSE QAdd(QMul(Num(cmathIndex(f) + 1), v), Num(cmathIndex(f)))

\* constexpr auto ln10 = 2.3025850929940456840179914546843
ln10 == Q(23, 10)

\* apply<Op>(self) with the inverse's derivative scaled by -val in place of
\* -val * val
applyInverseNoSquare(s, self, op) ==
    CASE op = "NegOp" ->
            LET s1 == [s EXCEPT ![self].val = QNeg(s[self].val)]
            IN  [s1 EXCEPT ![self].grad = QNeg(s1[self].grad)]
      [] op = "InvOp" ->
            LET s1 == [s EXCEPT ![self].val = QDiv(One, s[self].val)]
            IN  [s1 EXCEPT ![self].grad = QMul(s1[self].grad, QNeg(s1[self].val))]

\* the expressions of the bodies of apply: self.val, self.grad, the local
\* aux, a number, a function of <cmath>, and the arithmetic on them
selfVal == [k |-> "val"]

selfGrad == [k |-> "grad"]

auxVar == [k |-> "aux"]

number(c) == [k |-> "num", c |-> c]

fun(f, e) == [k |-> "fun", f |-> f, e |-> e]

opp(e) == [k |-> "opp", e |-> e]

sum(a, b) == [k |-> "sum", a |-> a, b |-> b]

diff(a, b) == [k |-> "diff", a |-> a, b |-> b]

prod(a, b) == [k |-> "prod", a |-> a, b |-> b]

quot(a, b) == [k |-> "quot", a |-> a, b |-> b]

\* the statements w = e and self.grad *= e
set(w, e) == [w |-> w, e |-> e]

mulGrad(e) == [w |-> "grad", e |-> prod(selfGrad, e)]

\* the bodies of apply(self, Op) for the functions of <cmath>
body(op) ==
    CASE op = "SinOp" ->
            << mulGrad(fun("cos", selfVal)),
               set("val", fun("sin", selfVal)) >>
      [] op = "CosOp" ->
            << mulGrad(opp(fun("sin", selfVal))),
               set("val", fun("cos", selfVal)) >>
      [] op = "TanOp" ->
            << set("aux", quot(number(One), fun("cos", selfVal))),
               set("val", fun("tan", selfVal)),
               mulGrad(prod(auxVar, auxVar)) >>
      [] op = "ArcSinOp" ->
            << set("aux", quot(number(One),
                               fun("sqrt", diff(number(One), prod(selfVal, selfVal))))),
               set("val", fun("asin", selfVal)),
               mulGrad(auxVar) >>
      [] op = "ArcCosOp" ->
            << set("aux", quot(opp(number(One)),
                               fun("sqrt", diff(number(One), prod(selfVal, selfVal))))),
               set("val", fun("acos", selfVal)),
               mulGrad(auxVar) >>
      [] op = "ArcTanOp" ->
            << set("aux", quot(number(One), sum(number(One), prod(selfVal, selfVal)))),
               set("val", fun("atan", selfVal)),
               mulGrad(auxVar) >>
      [] op = "ExpOp" ->
            << set("val", fun("exp", selfVal)),
               mulGrad(selfVal) >>
      [] op = "LogOp" ->
            << set("aux", quot(number(One), selfVal)),
               set("val", fun("log", selfVal)),
               mulGrad(auxVar) >>
      [] op = "Log10Op" ->
            << set("aux", quot(number(One), prod(number(ln10), selfVal))),
               set("val", fun("log10", selfVal)),
               mulGrad(auxVar) >>
      [] op = "SqrtOp" ->
            << set("val", fun("sqrt", selfVal)),
               mulGrad(quot(number(Q(1, 2)), selfVal)) >>
      [] op = "AbsOp" ->
            << set("aux", selfVal),
               set("val", fun("abs", selfVal)),
               mulGrad(quot(auxVar, selfVal)) >>

RECURSIVE value(_, _)
\* the value of expression e where self and aux are as in m
value(e, m) ==
    CASE e.k \in {"val", "grad", "aux"} -> m[e.k]
      [] e.k = "num" -> e.c
      [] e.k = "fun" -> std(e.f, value(e.e, m))
      [] e.k = "opp" -> QNeg(value(e.e, m))
      [] e.k = "sum" -> QAdd(value(e.a, m), value(e.b, m))
      [] e.k = "diff" -> QSub(value(e.a, m), value(e.b, m))
      [] e.k = "prod" -> QMul(value(e.a, m), value(e.b, m))
      [] e.k = "quot" -> QDiv(value(e.a, m), value(e.b, m))

RECURSIVE executedBackwards(_, _)
\* the statements of a body run from the last to the first
executedBackwards(stmts, m) ==
    IF stmts = << >> THEN m
    ELSE LET n == Len(stmts)
         IN  executedBackwards(SubSeq(stmts, 1, n - 1),
                               [m EXCEPT ![stmts[n].w] = value(stmts[n].e, m)])

RECURSIVE executed(_, _)
\* the statements of a body run in their order on m = [val, grad, aux]
executed(stmts, m) ==
    IF stmts = << >> THEN m
    ELSE executed(Tail(stmts), [m EXCEPT ![Head(stmts).w] = value(Head(stmts).e, m)])

\* apply<Op>(self)
apply(s, self, op) ==
    CASE op = "NegOp" ->
            LET s1 == [s EXCEPT ![self].val = QNeg(s[self].val)]
            IN  [s1 EXCEPT ![self].grad = QNeg(s1[self].grad)]
      [] op = "InvOp" ->
            LET s1 == [s EXCEPT ![self].val = QDiv(One, s[self].val)]
            IN  [s1 EXCEPT ![self].grad =
                     QMul(s1[self].grad, QMul(QNeg(s1[self].val), s1[self].val))]
      [] OTHER ->
            LET m == executed(body(op), [val |-> s[self].val, grad |-> s[self].grad,
                                         aux |-> NaN])
            IN  [s EXCEPT ![self] = [val |-> m.val, grad |-> m.grad]]

\* assign(self, scalar)
assignNumber(s, self, c) ==
    LET s1 == [s EXCEPT ![self].val = c]
    IN  [s1 EXCEPT ![self].grad = Zero]

\* assign(self, dual) that moves from other: the operand dual is left zero
assignDualMovedFrom(s, self, o) ==
    LET s1 == [s EXCEPT ![self].val = deref(s, o).val]
        s2 == [s1 EXCEPT ![self].grad = deref(s1, o).grad]
    IN  IF o.k = "Dual" /\ o.ref # self
        THEN [s2 EXCEPT ![o.ref] = [val |-> Zero, grad |-> Zero]]
        ELSE s2

\* assign(self, dual)
assignDual(s, self, o) ==
    LET s1 == [s EXCEPT ![self].val = deref(s, o).val]
    IN  [s1 EXCEPT ![self].grad = deref(s1, o).grad]

\* assignAdd(self, scalar)
assignAddNumber(s, self, c) == [s EXCEPT ![self].val = QAdd(s[self].val, c)]

\* assignAdd(self, dual)
assignAddDual(s, self, o) ==
    LET s1 == [s EXCEPT ![self].val = QAdd(s[self].val, deref(s, o).val)]
    IN  [s1 EXCEPT ![self].grad = QAdd(s1[self].grad, deref(s1, o).grad)]

\* assignAdd(self, scalar * dual)
assignAddNumberDualMul(s, self, o) ==
    LET s1 == [s EXCEPT ![self].val = QAdd(s[self].val, QMul(o.l.c, deref(s, o.r).val))]
    IN  [s1 EXCEPT ![self].grad = QAdd(s1[self].grad, QMul(o.l.c, deref(s1, o.r).grad))]

\* assignAddNegativeDual(self, tmp) with the derivative added, not subtracted
assignAddNegativeDualGradAdded(s, self, tmp) ==
    LET s1 == [s EXCEPT ![self].val = QSub(s[self].val, tmp.val)]
    IN  [s1 EXCEPT ![self].grad = QAdd(s1[self].grad, tmp.grad)]

\* assignAddNegativeDual(self, tmp)
assignAddNegativeDual(s, self, tmp) ==
    LET s1 == [s EXCEPT ![self].val = QSub(s[self].val, tmp.val)]
    IN  [s1 EXCEPT ![self].grad = QSub(s1[self].grad, tmp.grad)]

\* assignAddInverseDual(self, tmp)
assignAddInverseDual(s, self, tmp) ==
    LET aux == QDiv(One, tmp.val)
        s1 == [s EXCEPT ![self].val = QAdd(s[self].val, aux)]
    IN  [s1 EXCEPT ![self].grad = QSub(s1[self].grad, QMul(QMul(aux, aux), tmp.grad))]

\* assignSub(self, scalar)
assignSubNumber(s, self, c) == [s EXCEPT ![self].val = QSub(s[self].val, c)]

\* assignSub(self, dual)
assignSubDual(s, self, o) ==
    LET s1 == [s EXCEPT ![self].val = QSub(s[self].val, deref(s, o).val)]
    IN  [s1 EXCEPT ![self].grad = QSub(s1[self].grad, deref(s1, o).grad)]

\* assignMul(self, scalar)
assignMulNumber(s, self, c) ==
    LET s1 == [s EXCEPT ![self].val = QMul(s[self].val, c)]
    IN  [s1 EXCEPT ![self].grad = QMul(s1[self].grad, c)]

\* assignMul(self, dual) without the term self.val * other.grad
assignMulDualNoCross(s, self, o) ==
    LET s1 == [s EXCEPT ![self].grad = QMul(s[self].grad, deref(s, o).val)]
    IN  [s1 EXCEPT ![self].val = QMul(s1[self].val, deref(s1, o).val)]

\* assignMul(self, dual)
assignMulDual(s, self, o) ==
    LET s1 == [s EXCEPT ![self].grad = QMul(s[self].grad, deref(s, o).val)]
        s2 == [s1 EXCEPT ![self].grad =
                   QAdd(s1[self].grad, QMul(s1[self].val, deref(s1, o).grad))]
    IN  [s2 EXCEPT ![self].val = QMul(s2[self].val, deref(s2, o).val)]

\* assignMul(self, scalar * dual)
assignMulNumberDualMul(s, self, o) ==
    LET s1 == [s EXCEPT ![self].val = QMul(s[self].val, o.l.c)]
        s2 == [s1 EXCEPT ![self].grad = QMul(s1[self].grad, o.l.c)]
        s3 == [s2 EXCEPT ![self].grad = QMul(s2[self].grad, deref(s2, o.r).val)]
        s4 == [s3 EXCEPT ![self].grad =
                   QAdd(s3[self].grad, QMul(s3[self].val, deref(s3, o.r).grad))]
    IN  [s4 EXCEPT ![self].val = QMul(s4[self].val, deref(s4, o.r).val)]

\* assignDiv(self, scalar)
assignDivNumber(s, self, c) ==
    LET aux == QDiv(One, c)
    IN  assignMulNumber(s, self, aux)

\* assignDiv(self, dual) with the derivative updated before the value, so
\* that it reads the value of self from before the division
assignDivDualGradFirst(s, self, o) ==
    LET aux == QDiv(One, deref(s, o).val)
        s1 == [s EXCEPT ![self].grad =
                   QSub(s[self].grad, QMul(s[self].val, deref(s, o).grad))]
        s2 == [s1 EXCEPT ![self].grad = QMul(s1[self].grad, aux)]
    IN  [s2 EXCEPT ![self].val = QMul(s2[self].val, aux)]

\* assignDiv(self, dual)
assignDivDual(s, self, o) ==
    LET aux == QDiv(One, deref(s, o).val)
        s1 == [s EXCEPT ![self].val = QMul(s[self].val, aux)]
        s2 == [s1 EXCEPT ![self].grad =
                   QSub(s1[self].grad, QMul(s1[self].val, deref(s1, o).grad))]
    IN  [s2 EXCEPT ![self].grad = QMul(s2[self].grad, aux)]

\* assignPow(self, scalar)
assignPowNumber(s, self, c) ==
    LET aux == PowQ(s[self].val, c)
        s1 == [s EXCEPT ![self].grad = QMul(s[self].grad, QMul(QDiv(c, s[self].val), aux))]
    IN  [s1 EXCEPT ![self].val = aux]

\* assignPow(self, dual)
assignPowDual(s, self, o) ==
    LET aux1 == PowQ(s[self].val, deref(s, o).val)
        aux2 == LogQ(s[self].val)
        s1 == [s EXCEPT ![self].grad =
                   QMul(s[self].grad, QDiv(deref(s, o).val, s[self].val))]
        s2 == [s1 EXCEPT ![self].grad = QAdd(s1[self].grad, QMul(aux2, deref(s1, o).grad))]
        s3 == [s2 EXCEPT ![self].grad = QMul(s2[self].grad, aux1)]
    IN  [s3 EXCEPT ![self].val = aux1]

\* negative(expr): the operand of a negation, copied out of the node, or a
\* new negation node
negative(s, o) ==
    IF isNegExpr(o) THEN (IF isDual(o.r) THEN DualVal(deref(s, o.r)) ELSE o.r)
    ELSE NegExpr(o)

\* inverse(expr): the operand of an inversion, copied out of the node, or a
\* new inversion node
inverse(s, o) ==
    IF isInvExpr(o) THEN (IF isDual(o.r) THEN DualVal(deref(s, o.r)) ELSE o.r)
    ELSE InvExpr(o)

\* no scratch dual: the simple call shape
NoTmp == "none"

RECURSIVE engine(_, _, _, _, _)
(***************************************************************************)
(* The mutually recursive overloads of assign, assignAdd, assignMul and    *)
(* assignPow, selected by fn, in both call shapes: tmp = NoTmp is the      *)
(* simple shape f(self, other), otherwise tmp is the location of the       *)
(* scratch dual of f(self, other, tmp).  The result is the store after the *)
(* call.  fn = "eval" is eval(other) with the new dual at location         *)
(* "local".  A Dual declared inside an overload (Dual<T, G> tmp) or        *)
(* returned by eval is named by no tree, so it is passed on by value.      *)
(***************************************************************************)
engine(fn, s, self, o, tmp) ==
    CASE fn = "eval" ->
            \* eval(dual) returns the dual, eval(expr) constructs
            \* Dual<ValueType, GradType>(expr), that is assign(*this, expr)
            IF isDual(o) THEN [s EXCEPT !["local"] = deref(s, o)]
            ELSE engine("assign", s, "local", o, NoTmp)
      [] fn = "assign" ->
            (CASE isNumber(o) -> assignNumber(s, self, o.c)
              [] isDual(o) -> assignDual(s, self, o)
              [] isNumberDualMulExpr(o) ->
                    \* assign(self, other.r); scale(self, other.l)
                    scale(engine("assign", s, self, o.r, NoTmp), self, o.l.c)
              [] isUnaryExpr(o) ->
                    \* assign(self, other.r[, tmp]); apply<Op>(self)
                    apply(engine("assign", s, self, o.r, tmp), self, o.op)
              [] isAddExpr(o) ->
                    \* assign(self, other.r[, tmp]); assignAdd(self, other.l[, tmp])
                    engine("assignAdd", engine("assign", s, self, o.r, tmp), self, o.l, tmp)
              [] isMulExpr(o) ->
                    \* assign(self, other.r[, tmp]); assignMul(self, other.l[, tmp])
                    engine("assignMul", engine("assign", s, self, o.r, tmp), self, o.l, tmp)
              [] isPowExpr(o) ->
                    \* assign(self, other.l[, tmp]); assignPow(self, other.r[, tmp])
                    engine("assignPow", engine("assign", s, self, o.l, tmp), self, o.r, tmp))
      [] fn = "assignAdd" ->
            (CASE isNumber(o) -> assignAddNumber(s, self, o.c)
              [] isDual(o) -> assignAddDual(s, self, o)
              [] isNumberDualMulExpr(o) -> assignAddNumberDualMul(s, self, o)
              [] isNegExpr(o) ->
                    IF tmp = NoTmp
                    THEN \* assignAddNegativeDual(self, eval(other.r))
                         assignAddNegativeDual(s, self,
                             engine("eval", s, "local", o.r, NoTmp)["local"])
                    ELSE \* tmp = eval(other.r); assignAddNegativeDual(self, tmp)
                         LET s1 == assignDual(s, tmp,
                                       DualVal(engine("eval", s, "local", o.r, NoTmp)["local"]))
                         IN  assignAddNegativeDual(s1, self, s1[tmp])
              [] isInvExpr(o) ->
                    IF tmp = NoTmp
                    THEN \* assignAddInverseDual(self, eval(other.r))
                         assignAddInverseDual(s, self,
                             engine("eval", s, "local", o.r, NoTmp)["local"])
                    ELSE \* tmp = eval(other.r); assignAddInverseDual(self, tmp)
                         LET s1 == assignDual(s, tmp,
                                       DualVal(engine("eval", s, "local", o.r, NoTmp)["local"]))
                         IN  assignAddInverseDual(s1, self, s1[tmp])
              [] isAddExpr(o) ->
                    \* assignAdd(self, other.l[, tmp]); assignAdd(self, other.r[, tmp])
                    engine("assignAdd", engine("assignAdd", s, self, o.l, tmp), self, o.r, tmp)
              [] OTHER ->
                    IF tmp = NoTmp
                    THEN \* Dual<T, G> tmp; assign(tmp, other); assignAdd(self, tmp)
                         assignAddDual(s, self,
                             DualVal(engine("assign", s, "local", o, NoTmp)["local"]))
                    ELSE \* assign(tmp, other); assignAdd(self, tmp)
                         LET s1 == engine("assign", s, tmp, o, NoTmp)
                         IN  assignAddDual(s1, self, DualRef(tmp)))
      [] fn = "assignMul" ->
            (CASE isNumber(o) -> assignMulNumber(s, self, o.c)
              [] isDual(o) -> assignMulDual(s, self, o)
              [] isNegExpr(o) ->
                    \* assignMul(self, other.r[, tmp]); negate(self)
                    negate(engine("assignMul", s, self, o.r, tmp), self)
              [] isNumberDualMulExpr(o) -> assignMulNumberDualMul(s, self, o)
              [] isMulExpr(o) ->
                    \* assignMul(self, other.l[, tmp]); assignMul(self, other.r[, tmp])
                    engine("assignMul", engine("assignMul", s, self, o.l, tmp), self, o.r, tmp)
              [] OTHER ->
                    IF tmp = NoTmp
                    THEN \* Dual<T, G> tmp; assign(tmp, other); assignMul(self, tmp)
                         assignMulDual(s, self,
                             DualVal(engine("assign", s, "local", o, NoTmp)["local"]))
                    ELSE \* assign(tmp, other); assignMul(self, tmp)
                         LET s1 == engine("assign", s, tmp, o, NoTmp)
                         IN  assignMulDual(s1, self, DualRef(tmp)))
      [] fn = "assignPow" ->
            (CASE isNumber(o) -> assignPowNumber(s, self, o.c)
              [] isDual(o) -> assignPowDual(s, self, o)
              [] OTHER ->
                    IF tmp = NoTmp
                    THEN \* assignPow(self, eval(other))
                         assignPowDual(s, self,
                             DualVal(engine("eval", s, "local", o, NoTmp)["local"]))
                    ELSE \* assign(tmp, other); assignPow(self, tmp)
                         LET s1 == engine("assign", s, tmp, o, NoTmp)
                         IN  assignPowDual(s1, self, DualRef(tmp)))

\* eval(expr): the store after the call, the dual it returns at "local"
evalInto(s, o) == engine("eval", s, "local", o, NoTmp)

\* eval(expr): the dual it returns
eval(s, o) == engine("eval", s, "local", o, NoTmp)["local"]

\* assign(self, other)
assign(s, self, o) == engine("assign", s, self, o, NoTmp)

\* assignAdd(self, other)
assignAdd(s, self, o) == engine("assignAdd", s, self, o, NoTmp)

\* assignSub(self, other)
assignSub(s, self, o) ==
    CASE isNumber(o) -> assignSubNumber(s, self, o.c)
      [] isDual(o) -> assignSubDual(s, self, o)
      [] OTHER -> engine("assignAdd", s, self, negative(s, o), NoTmp)

\* assignMul(self, other)
assignMul(s, self, o) == engine("assignMul", s, self, o, NoTmp)

\* assignDiv(self, other)
assignDiv(s, self, o) ==
    CASE isNumber(o) -> assignDivNumber(s, self, o.c)
      [] isDual(o) -> assignDivDual(s, self, o)
      [] OTHER -> engine("assignMul", s, self, inverse(s, o), NoTmp)

\* assignPow(self, other)
assignPow(s, self, o) == engine("assignPow", s, self, o, NoTmp)

\* assign(self, other, tmp)
assignTmp(s, self, o, tmp) == engine("assign", s, self, o, tmp)

\* assignAdd(self, other, tmp) that adds the scratch dual without reducing
\* an expression into it first
assignAddTmpStale(s, self, o, tmp) ==
    IF isNumber(o) \/ isDual(o) THEN engine("assignAdd", s, self, o, tmp)
    ELSE assignAddDual(s, self, DualRef(tmp))

\* assignAdd(self, other, tmp)
assignAddTmp(s, self, o, tmp) == engine("assignAdd", s, self, o, tmp)

\* assignSub(self, other, tmp)
assignSubTmp(s, self, o, tmp) ==
    CASE isNumber(o) -> assignSubNumber(s, self, o.c)
      [] isDual(o) -> assignSubDual(s, self, o)
      [] OTHER -> engine("assignAdd", s, self, negative(s, o), tmp)

\* assignMul(self, other, tmp)
assignMulTmp(s, self, o, tmp) == engine("assignMul", s, self, o, tmp)

\* assignDiv(self, other, tmp)
assignDivTmp(s, self, o, tmp) ==
    CASE isNumber(o) -> assignDivNumber(s, self, o.c)
      [] isDual(o) -> assignDivDual(s, self, o)
      [] OTHER -> engine("assignMul", s, self, inverse(s, o), tmp)

\* assignPow(self, other, tmp)
assignPowTmp(s, self, o, tmp) == engine("assignPow", s, self, o, tmp)

(***************************************************************************)
(* The engine statement by statement.  A call is replaced by the           *)
(* statements of the body of the overload selected for it, in the order    *)
(* the body executes them; a prim is a body that calls no other overload   *)
(* of the engine.  path is the position of the source node in the tree the *)
(* outermost call was given ("l" and "r" from the root), loc the location  *)
(* of the dual the body declares or receives from eval.                    *)
(***************************************************************************)
Call(fn, self, o, tmp, path) ==
    [k |-> "call", fn |-> fn, self |-> self, o |-> o, tmp |-> tmp, path |-> path]

Prim(fn, self, o, path) ==
    [k |-> "prim", fn |-> fn, self |-> self, o |-> o, tmp |-> NoTmp, path |-> path]

\* the bodies with assign reducing the left operand of an addition or
\* multiplication node first
statementsAssignLeftFirst(c, loc) ==
    LET l == Append(c.path, "l")
        r == Append(c.path, "r")
    IN  CASE c.fn = "assign" /\ isAddExpr(c.o) ->
                << Call("assign", c.self, c.o.l, c.tmp, l),
                   Call("assignAdd", c.self, c.o.r, c.tmp, r) >>
          [] c.fn = "assign" /\ isMulExpr(c.o) ->
                << Call("assign", c.self, c.o.l, c.tmp, l),
                   Call("assignMul", c.self, c.o.r, c.tmp, r) >>
          [] c.fn = "assignAdd" /\ isAddExpr(c.o) ->
                << Call("assignAdd", c.self, c.o.l, c.tmp, l),
                   Call("assignAdd", c.self, c.o.r, c.tmp, r) >>
          [] c.fn = "assignMul" /\ isMulExpr(c.o) ->
                << Call("assignMul", c.self, c.o.l, c.tmp, l),
                   Call("assignMul", c.self, c.o.r, c.tmp, r) >>

\* the bodies with assignAdd and assignMul accumulating the right operand
\* of an addition or multiplication node first
statementsAccumulateRightFirst(c, loc) ==
    LET l == Append(c.path, "l")
        r == Append(c.path, "r")
    IN  CASE c.fn = "assign" /\ isAddExpr(c.o) ->
                << Call("assign", c.self, c.o.r, c.tmp, r),
                   Call("assignAdd", c.self, c.o.l, c.tmp, l) >>
          [] c.fn = "assign" /\ isMulExpr(c.o) ->
                << Call("assign", c.self, c.o.r, c.tmp, r),
                   Call("assignMul", c.self, c.o.l, c.tmp, l) >>
          [] c.fn = "assignAdd" /\ isAddExpr(c.o) ->
                << Call("assignAdd", c.self, c.o.r, c.tmp, r),
                   Call("assignAdd", c.self, c.o.l, c.tmp, l) >>
          [] c.fn = "assignMul" /\ isMulExpr(c.o) ->
                << Call("assignMul", c.self, c.o.r, c.tmp, r),
                   Call("assignMul", c.self, c.o.l, c.tmp, l) >>

\* the statements of the overloads for addition and multiplication nodes
statementsTwoOperands(c, loc) ==
    LET l == Append(c.path, "l")
        r == Append(c.path, "r")
    IN  CASE c.fn = "assign" /\ isAddExpr(c.o) ->
                \* assign(self, other.r[, tmp]); assignAdd(self, other.l[, tmp])
                << Call("assign", c.self, c.o.r, c.tmp, r),
                   Call("assignAdd", c.self, c.o.l, c.tmp, l) >>
          [] c.fn = "assign" /\ isMulExpr(c.o) ->
                \* assign(self, other.r[, tmp]); assignMul(self, other.l[, tmp])
                << Call("assign", c.self, c.o.r, c.tmp, r),
                   Call("assignMul", c.self, c.o.l, c.tmp, l) >>
          [] c.fn = "assignAdd" /\ isAddExpr(c.o) ->
                \* assignAdd(self, other.l[, tmp]); assignAdd(self, other.r[, tmp])
                << Call("assignAdd", c.self, c.o.l, c.tmp, l),
                   Call("assignAdd", c.self, c.o.r, c.tmp, r) >>
          [] c.fn = "assignMul" /\ isMulExpr(c.o) ->
                \* assignMul(self, other.l[, tmp]); assignMul(self, other.r[, tmp])
                << Call("assignMul", c.self, c.o.l, c.tmp, l),
                   Call("assignMul", c.self, c.o.r, c.tmp, r) >>

\* the statements of the body of the overload selected for call c
statements(c, loc) ==
    LET l == Append(c.path, "l")
        r == Append(c.path, "r")
        here == c.path
    IN  CASE c.fn = "eval" ->
                \* eval(dual) returns a copy, eval(expr) constructs a dual
                IF isDual(c.o) THEN << Prim("assignDual", c.self, c.o, here) >>
                ELSE << Call("assign", c.self, c.o, NoTmp, here) >>
          [] c.fn = "assign" ->
                (CASE isNumber(c.o) -> << Prim("assignNumber", c.self, c.o, here) >>
                  [] isDual(c.o) -> << Prim("assignDual", c.self, c.o, here) >>
                  [] isNumberDualMulExpr(c.o) ->
                        << Call("assign", c.self, c.o.r, NoTmp, r),
                           Prim("scale", c.self, c.o.l, here) >>
                  [] isUnaryExpr(c.o) ->
                        << Call("assign", c.self, c.o.r, c.tmp, r),
                           Prim("apply", c.self, c.o, here) >>
                  [] isAddExpr(c.o) \/ isMulExpr(c.o) -> statementsTwoOperands(c, loc)
                  [] isPowExpr(c.o) ->
                        << Call("assign", c.self, c.o.l, c.tmp, l),
                           Call("assignPow", c.self, c.o.r, c.tmp, r) >>)
          [] c.fn = "assignAdd" ->
                (CASE isNumber(c.o) -> << Prim("assignAddNumber", c.self, c.o, here) >>
                  [] isDual(c.o) -> << Prim("assignAddDual", c.self, c.o, here) >>
                  [] isNumberDualMulExpr(c.o) ->
                        << Prim("assignAddNumberDualMul", c.self, c.o, here) >>
                  [] isNegExpr(c.o) \/ isInvExpr(c.o) ->
                        LET f == IF isNegExpr(c.o) THEN "assignAddNegativeDual"
                                 ELSE "assignAddInverseDual"
                        IN  IF c.tmp = NoTmp
                            THEN << Call("eval", loc, c.o.r, NoTmp, r),
                                    Prim(f, c.self, DualRef(loc), here) >>
                            ELSE << Call("eval", loc, c.o.r, NoTmp, r),
                                    Prim("assignDual", c.tmp, DualRef(loc), here),
                                    Prim(f, c.self, DualRef(c.tmp), here) >>
                  [] isAddExpr(c.o) -> statementsTwoOperands(c, loc)
                  [] OTHER ->
                        IF c.tmp = NoTmp
                        THEN \* Dual<T, G> tmp; assignAdd(self, other, tmp)
                             << Call("assignAdd", c.self, c.o, loc, here) >>
                        ELSE << Call("assign", c.tmp, c.o, NoTmp, here),
                                Prim("assignAddDual", c.self, DualRef(c.tmp), here) >>)
          [] c.fn = "assignMul" ->
                (CASE isNumber(c.o) -> << Prim("assignMulNumber", c.self, c.o, here) >>
                  [] isDual(c.o) -> << Prim("assignMulDual", c.self, c.o, here) >>
                  [] isNegExpr(c.o) ->
                        << Call("assignMul", c.self, c.o.r, c.tmp, r),
                           Prim("negate", c.self, c.o, here) >>
                  [] isNumberDualMulExpr(c.o) ->
                        << Prim("assignMulNumberDualMul", c.self, c.o, here) >>
                  [] isMulExpr(c.o) -> statementsTwoOperands(c, loc)
                  [] OTHER ->
                        IF c.tmp = NoTmp
                        THEN \* Dual<T, G> tmp; assignMul(self, other, tmp)
                             << Call("assignMul", c.self, c.o, loc, here) >>
                        ELSE << Call("assign", c.tmp, c.o, NoTmp, here),
                                Prim("assignMulDual", c.self, DualRef(c.tmp), here) >>)
          [] c.fn = "assignPow" ->
                (CASE isNumber(c.o) -> << Prim("assignPowNumber", c.self, c.o, here) >>
                  [] isDual(c.o) -> << Prim("assignPowDual", c.self, c.o, here) >>
                  [] OTHER ->
                        IF c.tmp = NoTmp
                        THEN \* assignPow(self, eval(other))
                             << Call("eval", loc, c.o, NoTmp, here),
                                Prim("assignPowDual", c.self, DualRef(loc), here) >>
                        ELSE << Call("assign", c.tmp, c.o, NoTmp, here),
                                Prim("assignPowDual", c.self, DualRef(c.tmp), here) >>)

\* the overloads whose body declares a dual or receives one from eval
declares(c) == statements(c, "local1") # statements(c, "local2")

\* the store after the body p, one that calls no other overload
perform(s, p) ==
    CASE p.fn = "assignNumber" -> assignNumber(s, p.self, p.o.c)
      [] p.fn = "assignDual" -> assignDual(s, p.self, p.o)
      [] p.fn = "scale" -> scale(s, p.self, p.o.c)
      [] p.fn = "apply" -> apply(s, p.self, p.o.op)
      [] p.fn = "negate" -> negate(s, p.self)
      [] p.fn = "assignAddNumber" -> assignAddNumber(s, p.self, p.o.c)
      [] p.fn = "assignAddDual" -> assignAddDual(s, p.self, p.o)
      [] p.fn = "assignAddNumberDualMul" -> assignAddNumberDualMul(s, p.self, p.o)
      [] p.fn = "assignAddNegativeDual" -> assignAddNegativeDual(s, p.self, deref(s, p.o))
      [] p.fn = "assignAddInverseDual" -> assignAddInverseDual(s, p.self, deref(s, p.o))
      [] p.fn = "assignMulNumber" -> assignMulNumber(s, p.self, p.o.c)
      [] p.fn = "assignMulDual" -> assignMulDual(s, p.self, p.o)
      [] p.fn = "assignMulNumberDualMul" -> assignMulNumberDualMul(s, p.self, p.o)
      [] p.fn = "assignPowNumber" -> assignPowNumber(s, p.self, p.o.c)
      [] p.fn = "assignPowDual" -> assignPowDual(s, p.self, p.o)

(***************************************************************************)
(* The engine instantiated for HigherOrderDual<2> = Dual<Dual, Dual>: val  *)
(* and grad of a dual are first-order duals, and every statement of an     *)
(* overload is an operation of the first-order engine on these parts.  The *)
(* parts of the duals of store s are the locations v.val and v.grad of a   *)
(* first-order store.                                                      *)
(***************************************************************************)
valPart(v) == v \o ".val"

gradPart(v) == v \o ".grad"

\* the first-order store of the parts of the second-order duals of s
parts(s) ==
    [l \in {valPart(v) : v \in DOMAIN s} \cup {gradPart(v) : v \in DOMAIN s} \cup {"local"} |->
        IF l = "local" THEN Dual(NaN, NaN)
        ELSE IF \E v \in DOMAIN s : l = valPart(v)
             THEN s[CHOOSE v \in DOMAIN s : l = valPart(v)].val
             ELSE s[CHOOSE v \in DOMAIN s : l = gradPart(v)].grad]

\* the second-order duals at locations D whose parts are in p
whole(p, D) == [v \in D |-> [val |-> p[valPart(v)], grad |-> p[gradPart(v)]]]

\* assign(self, scalar): self.val = other; self.grad = 0.0
assignNumberNested(s, self, c) ==
    LET p1 == assign(parts(s), valPart(self), Scalar(c))
        p2 == assign(p1, gradPart(self), Scalar(Zero))
    IN  whole(p2, DOMAIN s)

\* assign(self, dual): self.val = other.val; self.grad = other.grad
assignDualNested(s, self, o) ==
    LET p1 == assign(parts(s), valPart(self), DualRef(valPart(o.ref)))
        p2 == assign(p1, gradPart(self), DualRef(gradPart(o.ref)))
    IN  whole(p2, DOMAIN s)

\* assignMul(self, scalar): self.val *= other; self.grad *= other
assignMulNumberNested(s, self, c) ==
    LET p1 == assignMul(parts(s), valPart(self), Scalar(c))
        p2 == assignMul(p1, gradPart(self), Scalar(c))
    IN  whole(p2, DOMAIN s)

\* assignMul(self, dual) without the term self.val * other.grad
assignMulDualNestedNoCross(s, self, o) ==
    LET p1 == assignMul(parts(s), gradPart(self), DualRef(valPart(o.ref)))
        p3 == assignMul(p1, valPart(self), DualRef(valPart(o.ref)))
    IN  whole(p3, DOMAIN s)

\* assignMul(self, dual): self.grad *= other.val;
\* self.grad += self.val * other.grad; self.val *= other.val
assignMulDualNested(s, self, o) ==
    LET p1 == assignMul(parts(s), gradPart(self), DualRef(valPart(o.ref)))
        p2 == assignAdd(p1, gradPart(self),
                        MulExpr(DualRef(valPart(self)), DualRef(gradPart(o.ref))))
        p3 == assignMul(p2, valPart(self), DualRef(valPart(o.ref)))
    IN  whole(p3, DOMAIN s)

RECURSIVE engineNested(_, _, _, _)
\* assign and assignMul, simple shape, on second-order duals: the sources
\* are scalars, duals held by reference and products
engineNested(fn, s, self, o) ==
    CASE fn = "assign" ->
            (CASE isNumber(o) -> assignNumberNested(s, self, o.c)
               [] isDual(o) -> assignDualNested(s, self, o)
               [] isMulExpr(o) ->
                     \* assign(self, other.r); assignMul(self, other.l)
                     engineNested("assignMul", engineNested("assign", s, self, o.r), self, o.l))
      [] fn = "assignMul" ->
            (CASE isNumber(o) -> assignMulNumberNested(s, self, o.c)
               [] isDual(o) -> assignMulDualNested(s, self, o)
               [] isMulExpr(o) ->
                     \* assignMul(self, other.l); assignMul(self, other.r)
                     engineNested("assignMul", engineNested("assignMul", s, self, o.l), self, o.r))

(***************************************************************************)
(* Derivative extraction: seeding, unseeding, derivative<order> and        *)
(* derivative(f, wrt, args...).  A dual of order 0 is a scalar; a dual of  *)
(* order k has val and grad of order k-1 (HigherOrderDual<k>).             *)
(***************************************************************************)
RECURSIVE assignNumberOrder(_, _)
\* self = number for a value of order ord: assign(self, scalar) sets
\* self.val = other and self.grad = 0.0, each of which is again an
\* assignment of a number when val and grad are duals
assignNumberOrder(ord, c) ==
    IF ord = 0 THEN c
    ELSE [val |-> assignNumberOrder(ord - 1, c), grad |-> assignNumberOrder(ord - 1, Zero)]

RECURSIVE setGradInnerKept(_, _, _, _)
\* dual.grad = num that writes the value of grad only and leaves the
\* derivative channels of grad as they are
setGradInnerKept(d, ord, depth, num) ==
    IF depth = 0
    THEN IF ord = 1 THEN [d EXCEPT !.grad = num]
         ELSE [d EXCEPT !.grad = [d.grad EXCEPT !.val = assignNumberOrder(ord - 2, num)]]
    ELSE [d EXCEPT !.val = setGradInnerKept(d.val, ord - 1, depth - 1, num)]

RECURSIVE setGrad(_, _, _, _)
\* dual.grad = num, for the dual reached from d by `depth` steps into .val
setGrad(d, ord, depth, num) ==
    IF depth = 0 THEN [d EXCEPT !.grad = assignNumberOrder(ord - 1, num)]
    ELSE [d EXCEPT !.val = setGrad(d.val, ord - 1, depth - 1, num)]

RECURSIVE internalSeedNoDescent(_, _, _, _)
\* internal::seed<num>(dual, duals...) recursing with seed<num>(duals...) in
\* place of seed<num>(duals.val...)
internalSeedNoDescent(s, ord, args, num) ==
    IF Len(args) = 1
    THEN [s EXCEPT ![args[1].v] = setGrad(s[args[1].v], ord, args[1].depth, num)]
    ELSE LET rest == [i \in 1..(Len(args) - 1) |-> args[i + 1]]
             s1 == internalSeedNoDescent(s, ord, rest, num)
         IN  [s1 EXCEPT ![args[1].v] = setGrad(s1[args[1].v], ord, args[1].depth, num)]

RECURSIVE internalSeed(_, _, _, _)
\* internal::seed<num>(dual, duals...): args is the list of arguments, each
\* [v, depth] denoting variable v followed by `depth` steps into .val
internalSeed(s, ord, args, num) ==
    IF Len(args) = 1
    THEN [s EXCEPT ![args[1].v] = setGrad(s[args[1].v], ord, args[1].depth, num)]
    ELSE LET rest == [i \in 1..(Len(args) - 1) |->
                         [v |-> args[i + 1].v, depth |-> args[i + 1].depth + 1]]
             s1 == internalSeed(s, ord, rest, num)
         IN  [s1 EXCEPT ![args[1].v] = setGrad(s1[args[1].v], ord, args[1].depth, num)]

\* wrt(duals...) that keeps only the first dual
wrtFirstOnly(vs) == << [v |-> vs[1], depth |-> 0] >>

\* wrt(duals...): the tuple of references
wrt(vs) == [i \in 1..Len(vs) |-> [v |-> vs[i], depth |-> 0]]

\* seed(wrt) that seeds nothing
seedSkipped(s, ord, w) == s

\* seed(wrt)
seed(s, ord, w) == internalSeed(s, ord, w, One)

\* unseed(wrt) that calls internal::seed<1>
unseedAsSeed(s, ord, w) == internalSeed(s, ord, w, One)

\* unseed(wrt) that restores nothing
unseedSkipped(s, ord, w) == s

\* unseed(wrt)
unseed(s, ord, w) == internalSeed(s, ord, w, Zero)

RECURSIVE val(_, _)
\* val(dual) for a value of order ord: the innermost value
val(ord, d) == IF ord = 0 THEN d ELSE val(ord - 1, d.val)

\* a mutation of val: the outermost derivative channel instead of the value
valOfGrad(s, ord, o) ==
    IF isNumber(o) THEN o.c
    ELSE IF o.k \in {"Dual", "DualVal"} THEN val(ord - 1, deref(s, o).grad)
    ELSE eval(s, o).grad

\* val(expr) on a scalar, a dual of order ord or a first-order expression:
\* val(eval(expr))
valOf(s, ord, o) ==
    IF isNumber(o) THEN o.c
    ELSE IF o.k \in {"Dual", "DualVal"} THEN val(ord, deref(s, o))
    ELSE val(1, eval(s, o))

\* the built-in comparisons of two numbers: every comparison with a NaN is
\* false, except != which is true
numEq(a, b) == ~IsNaN(a) /\ ~IsNaN(b) /\ a = b

numLess(a, b) ==
    /\ ~IsNaN(a) /\ ~IsNaN(b)
    /\ IF ~IsFinite(a) /\ ~IsFinite(b) THEN a[1] < b[1] ELSE QLess(a, b)

numCompare(cmp, a, b) ==
    CASE cmp = "==" -> numEq(a, b)
      [] cmp = "!=" -> ~numEq(a, b)
      [] cmp = "<=" -> numLess(a, b) \/ numEq(a, b)
      [] cmp = ">=" -> numLess(b, a) \/ numEq(a, b)
      [] cmp = "<" -> numLess(a, b)
      [] cmp = ">" -> numLess(b, a)

\* operator==, !=, <=, >=, <, > on operands l and r
compare(s, ord, cmp, l, r) == numCompare(cmp, valOf(s, ord, l), valOf(s, ord, r))

RECURSIVE derivativeOrderThroughVal(_, _)
\* derivative<order>(dual) descending through .val instead of .grad
derivativeOrderThroughVal(n, d) ==
    IF n = 1 THEN d.grad ELSE derivativeOrderThroughVal(n - 1, d.val)

RECURSIVE derivativeOrder(_, _)
\* derivative<order>(dual), order >= 1
derivativeOrder(n, d) ==
    IF n = 1 THEN d.grad ELSE derivativeOrder(n - 1, d.grad)

\* the outcome of instantiating a function template: the value it returns,
\* or no program at all when the instantiation is rejected
Returns(v) == [wf |-> TRUE, v |-> v]

IllFormed == [wf |-> FALSE, v |-> NaN]

(***************************************************************************)
(* derivative<n>(dual) on a value of order ord, as instantiated.  For      *)
(* n = 0 the statement `if constexpr (order == 0) return dual.val;` has no *)
(* else branch, so the second statement is instantiated too and its else   *)
(* branch names derivative<order - 1>(dual.grad) with order - 1 wrapped to *)
(* the largest size_t; the descent through .grad then reaches a number,    *)
(* which no overload of derivative accepts.  The same happens for n > ord. *)
(***************************************************************************)
derivative(ord, n, d) ==
    IF n = 0 \/ n > ord THEN IllFormed ELSE Returns(derivativeOrder(n, d))

(***************************************************************************)
(* The operator overloads.  An operand is a scalar, a dual or an           *)
(* expression; a node holds an lvalue operand by reference (DualRef,       *)
(* ExprRef) and a temporary by value.  The result of an overload is the    *)
(* tree it returns, or IllFormed when its body cannot be instantiated for  *)
(* the operand types.                                                      *)
(***************************************************************************)
\* an expression operand held by reference (a variable of the caller
\* declared with auto)
ExprRef(e) == [k |-> "ExprRef", e |-> e]

\* plain<T> leaving the reference in place
plainOfValueOnly(o) == o

\* plain<T>: the operand type without its reference
plain(o) == IF o.k = "ExprRef" THEN o.e ELSE o

\* the operand type is a reference type
isRef(o) == o.k \in {"Dual", "ExprRef"}

\* the value of a function with deduced return type (auto): a copy of the
\* returned operand
decay(s, o) == IF o.k = "Dual" THEN DualVal(s[o.ref]) ELSE plain(o)

RECURSIVE typeOf(_)
\* the type of an operand: the tree without the identity of its leaves
typeOf(o) ==
    CASE o.k = "Number" -> Scalar(Zero)
      [] o.k = "Dual" -> DualRef("")
      [] o.k = "DualVal" -> DualVal(Dual(Zero, Zero))
      [] o.k = "ExprRef" -> ExprRef(typeOf(o.e))
      [] o.k = "UnaryExpr" -> UnaryExpr(o.op, typeOf(o.r))
      [] o.k = "BinaryExpr" -> BinaryExpr(o.op, typeOf(o.l), typeOf(o.r))

\* F applied to the value of outcome a, when there is one
bind(a, F(_)) == IF a.wf THEN F(a.v) ELSE IllFormed

\* inverse<T>(scalar) computing 1 / (r + 1)
inverseNumberShifted(c) == QDiv(One, QAdd(c, One))

\* inverse<T>(scalar): static_cast<T>(1) / r
inverseNumber(c) == QDiv(One, c)

RECURSIVE operator(_, _, _, _)
(***************************************************************************)
(* operator+, operator-, operator*, operator/ (unary and binary), pow and  *)
(* inverse on operands l and r (r alone for the unary ones), selected as   *)
(* overload resolution selects them.  std::forward<R>(expr.r) on the       *)
(* member of a node received as const NegExpr<R>&, const InvExpr<R>& or    *)
(* const NumberDualMulExpr<U, R>& is well-formed only when R is a          *)
(* reference type.  Arithmetic on two scalars is the built-in one.         *)
(***************************************************************************)
operator(op, s, l, r) ==
    LET pl == plain(l)
        pr == plain(r)
    IN
    CASE op = "pos" ->
            \* +expr: return std::forward<R>(r)
            Returns(decay(s, r))
      [] op = "neg" ->
            (CASE isNumber(r) -> Returns(Scalar(QNeg(r.c)))
               [] isNegExpr(pr) ->
                     \* -(-expr): return std::forward<R>(expr.r)
                     IF isRef(pr.r) THEN Returns(decay(s, pr.r)) ELSE IllFormed
               [] isNumberDualMulExpr(pr) ->
                     \* -(scalar * dual): return { (-expr.l), std::forward<R>(expr.r) }
                     IF isRef(pr.r)
                     THEN Returns(NumberDualMulExpr(Scalar(QNeg(pr.l.c)), pr.r))
                     ELSE IllFormed
               [] OTHER -> Returns(NegExpr(r)))
      [] op = "inv" ->
            \* inverse(expr)
            (CASE isInvExpr(pr) ->
                     \* return std::forward<R>(r.r)
                     IF isRef(pr.r) THEN Returns(decay(s, pr.r)) ELSE IllFormed
               [] OTHER -> Returns(InvExpr(r)))
      [] op = "add" ->
            (CASE isNumber(l) -> Returns(AddExpr(l, r))
               [] isNumber(r) -> Returns(AddExpr(r, l))
               [] isNegExpr(pl) /\ isNegExpr(pr) ->
                     \* return -( std::forward<L>(l.r) + std::forward<R>(r.r) )
                     IF isRef(pl.r) /\ isRef(pr.r)
                     THEN bind(operator("add", s, pl.r, pr.r), LAMBDA v : operator("neg", s, v, v))
                     ELSE IllFormed
               [] OTHER -> Returns(AddExpr(l, r)))
      [] op = "mul" ->
            (CASE isNumber(l) /\ isNumber(r) -> Returns(Scalar(QMul(l.c, r.c)))
               [] isNumber(l) /\ isDual(pr) -> Returns(NumberDualMulExpr(l, r))
               [] isNumber(l) /\ isNumberDualMulExpr(pr) ->
                     \* return (l * r.l) * std::forward<R>(r.r)
                     IF isRef(pr.r)
                     THEN bind(operator("mul", s, l, pr.l), LAMBDA c : operator("mul", s, c, pr.r))
                     ELSE IllFormed
               [] isNumber(l) /\ isNegExpr(pr) ->
                     \* return (-l) * std::forward<R>(r.r)
                     IF isRef(pr.r)
                     THEN bind(operator("neg", s, l, l), LAMBDA c : operator("mul", s, c, pr.r))
                     ELSE IllFormed
               [] isNumber(l) -> Returns(MulExpr(l, r))
               [] isNumber(r) ->
                     \* expr * scalar: return { std::forward<R>(r), std::forward<L>(l) }
                     Returns(MulExpr(r, l))
               [] isNegExpr(pl) /\ isNegExpr(pr) ->
                     \* return std::forward<L>(l.r) * std::forward<L>(r.r)
                     IF isRef(pl.r) /\ isRef(pr.r) /\ typeOf(pl.r) = typeOf(pr.r)
                     THEN operator("mul", s, pl.r, pr.r)
                     ELSE IllFormed
               [] isInvExpr(pl) /\ isInvExpr(pr) ->
                     \* return inverse(std::forward<L>(l.r) * std::forward<R>(r.r))
                     IF isRef(pl.r) /\ isRef(pr.r)
                     THEN bind(operator("mul", s, pl.r, pr.r), LAMBDA v : operator("inv", s, v, v))
                     ELSE IllFormed
               [] OTHER -> Returns(MulExpr(l, r)))
      [] op = "sub" ->
            \* return std::forward<L>(l) + ( -std::forward<R>(r) )
            bind(operator("neg", s, r, r), LAMBDA v : operator("add", s, l, v))
      [] op = "div" ->
            IF isNumber(r)
            THEN \* return std::forward<L>(l) * inverse<T>(std::forward<R>(r))
                 operator("mul", s, l, Scalar(inverseNumber(r.c)))
            ELSE \* return std::forward<L>(l) * inverse(std::forward<R>(r))
                 bind(operator("inv", s, r, r), LAMBDA v : operator("mul", s, l, v))
      [] op = "pow" -> Returns(PowExpr(l, r))

(***************************************************************************)
(* The expressions of the caller's program: variables, literals, the       *)
(* operators applied to expressions, and variables declared with auto from *)
(* an expression.                                                          *)
(***************************************************************************)
Var(v) == [t |-> "var", v |-> v]

Lit(c) == [t |-> "lit", c |-> c]

Auto(e) == [t |-> "auto", e |-> e]

Un(op, a) == [t |-> "unary", op |-> op, a |-> a]

Bin(op, a, b) == [t |-> "binary", op |-> op, a |-> a, b |-> b]

RECURSIVE construct(_, _)
\* the operators with a subtraction node built for l - r
constructKeepingSubtraction(s, t) ==
    CASE t.t = "var" -> Returns(DualRef(t.v))
      [] t.t = "lit" -> Returns(Scalar(t.c))
      [] t.t = "auto" -> bind(construct(s, t.e), LAMBDA v : Returns(ExprRef(v)))
      [] t.t = "unary" -> bind(construct(s, t.a), LAMBDA v : operator(t.op, s, v, v))
      [] t.t = "binary" ->
            bind(construct(s, t.a),
                 LAMBDA a : bind(construct(s, t.b),
                                 LAMBDA b : IF t.op = "sub"
                                            THEN Returns(BinaryExpr("SubOp", a, b))
                                            ELSE operator(t.op, s, a, b)))

\* the tree the operators build for expression t, the duals being as in s
construct(s, t) ==
    CASE t.t = "var" -> Returns(DualRef(t.v))
      [] t.t = "lit" -> Returns(Scalar(t.c))
      [] t.t = "auto" -> bind(construct(s, t.e), LAMBDA v : Returns(ExprRef(v)))
      [] t.t = "unary" -> bind(construct(s, t.a), LAMBDA v : operator(t.op, s, v, v))
      [] t.t = "binary" ->
            bind(construct(s, t.a),
                 LAMBDA a : bind(construct(s, t.b), LAMBDA b : operator(t.op, s, a, b)))

RECURSIVE reducible(_)
\* the tree as the engine reads it: through the references to expressions
reducible(o) ==
    CASE o.k = "ExprRef" -> reducible(o.e)
      [] o.k = "UnaryExpr" -> UnaryExpr(o.op, reducible(o.r))
      [] o.k = "BinaryExpr" -> BinaryExpr(o.op, reducible(o.l), reducible(o.r))
      [] OTHER -> o

(***************************************************************************)
(* The program state: the caller's dual variables and one call of the      *)
(* library at a time.                                                      *)
(***************************************************************************)
VARIABLES
    order,   \* order of the caller's duals (1: dual, k: HigherOrderDual<k>)
    st,      \* the caller's dual variables
    pc,      \* "ready", "done", or the position inside derivative(f, wrt, args...)
    last,    \* the operation performed: its inputs, the store before it, its result
    dv,      \* the activation record of derivative(f, wrt, args...)
    run      \* the activation of the engine: pending statements, store, events

vars == << order, st, pc, last, dv, run >>

MaxOrder == 3

Vars == {"x", "y"}

\* the targets of the engine calls; exchanging x and y in the store and in
\* the tree gives the calls with target y
Targets == {"x"}

RECURSIVE fillDual(_, _, _)
\* a value of order ord with innermost value v and every derivative channel g
fillDual(ord, v, g) ==
    IF ord = 0 THEN v
    ELSE [val |-> fillDual(ord - 1, v, g), grad |-> fillDual(ord - 1, g, g)]

InitDuals(ord) == { fillDual(ord, Num(v), Num(g)) : v \in 0..MaxVal, g \in 0..MaxGrad }

\* the scalar operands of the expressions
Scalars == { Num(2) }

\* the wrt lists: up to `ord` variables, repetitions allowed
WrtLists(ord) == UNION { [1..n -> Vars] : n \in 1..ord }

(***************************************************************************)
(* The expression trees given to the engine.                               *)
(***************************************************************************)
Leaves == { DualRef(v) : v \in Vars }

Literals == { Scalar(c) : c \in Scalars }

\* trees over the leaves without pow and without inverse
Linear1 ==
    { NegExpr(a) : a \in Leaves }
    \cup { NumberDualMulExpr(c, a) : c \in Literals, a \in Leaves }
    \cup { AddExpr(a, b) : a \in Leaves \cup Literals, b \in Leaves }
    \cup { MulExpr(a, b) : a \in Leaves, b \in Leaves }

\* trees over the leaves without pow
Arith1 ==
    Linear1
    \cup { InvExpr(a) : a \in Leaves }
    \cup { MulExpr(c, InvExpr(a)) : c \in Literals, a \in Leaves }

\* the exponents given to assignPow: their value is integral
Exponents == Leaves \cup Literals \cup Linear1

Pow1 ==
    { PowExpr(a, b) : a \in Leaves, b \in Leaves \cup Literals }
    \cup { PowExpr(c, b) : c \in Literals, b \in Leaves }

Over(T) ==
    { NegExpr(t) : t \in T } \cup { InvExpr(t) : t \in T }
    \cup { AddExpr(a, t) : a \in Leaves, t \in T }
    \cup { AddExpr(t, a) : a \in Leaves, t \in T }
    \cup { MulExpr(a, t) : a \in Leaves, t \in T }
    \cup { MulExpr(t, a) : a \in Leaves, t \in T }

\* the trees of C1: scalars, duals, negation, inverse, addition,
\* multiplication and the fused scalar-times-dual node
ArithTrees == Leaves \cup Literals \cup Arith1 \cup Over(Arith1)

PowTrees == Pow1 \cup Over(Pow1)

Trees == ArithTrees \cup PowTrees

\* the sources of the accumulating operations: a pow node is not nested,
\* since accumulated into an aliased target (x *= x * pow(x, x)) its value
\* leaves the range of the model's integers
CompoundTrees == ArithTrees \cup Pow1

\* the sources given to each operation of the engine
Sources(op) ==
    CASE op = "assign" -> Trees
      [] op = "assignPow" -> Exponents
      [] OTHER -> CompoundTrees

\* the duals named in a tree
RECURSIVE operands(_)
operands(o) ==
    CASE o.k = "Number" -> {}
      [] o.k = "Dual" -> {o.ref}
      [] o.k = "DualVal" -> {}
      [] o.k = "UnaryExpr" -> operands(o.r)
      [] o.k = "BinaryExpr" -> operands(o.l) \cup operands(o.r)

\* the store extended with the engine's locations: res, the dual under
\* construction, and tmp, the caller's scratch dual
withLocals(s, r0, t0) ==
    [l \in Vars \cup {"res", "tmp", "local"} |->
        IF l \in Vars THEN s[l] ELSE IF l = "tmp" THEN t0 ELSE r0]

callerVars(s) == [v \in Vars |-> s[v]]

NoDual == Dual(NaN, NaN)

\* what the caller's scratch dual holds on entry
ScratchDuals == { Dual(Zero, Zero), Dual(Num(MaxVal), Num(MaxGrad)) }

NoCall == [op |-> "none", target |-> "none", src |-> Scalar(Zero), w |-> << >>,
           pre |-> << >>, tmp0 |-> NoDual, out |-> NoDual, n |-> 0, wf |-> TRUE,
           cmp |-> "none", rhs |-> Scalar(Zero), bool |-> FALSE,
           term |-> Lit(Zero), tree |-> Scalar(Zero)]

NoDeriv == [f |-> Scalar(Zero), w |-> << >>, pre |-> << >>, seeded |-> << >>,
            res |-> NoDual, ret |-> NaN, trace |-> << >>]

\* no call of the engine in progress
NoRun == [stack |-> << >>, s |-> << >>, pre |-> << >>, n |-> 0, log |-> << >>,
          root |-> Call("none", "none", Scalar(Zero), NoTmp, << >>)]

Init ==
    /\ order \in 1..MaxOrder
    /\ st \in [Vars -> InitDuals(order)]
    /\ pc = "ready"
    /\ last = NoCall
    /\ dv = NoDeriv
    /\ run = NoRun

\* the five Dual operators and the direct call of assignPow, simple shape
simpleShape(op, s, self, o) ==
    CASE op = "assign" -> assign(s, self, o)
      [] op = "assignAdd" -> assignAdd(s, self, o)
      [] op = "assignSub" -> assignSub(s, self, o)
      [] op = "assignMul" -> assignMul(s, self, o)
      [] op = "assignDiv" -> assignDiv(s, self, o)
      [] op = "assignPow" -> assignPow(s, self, o)

\* the scratch-accepting shape of the same operation
scratchShape(op, s, self, o, tmp) ==
    CASE op = "assign" -> assignTmp(s, self, o, tmp)
      [] op = "assignAdd" -> assignAddTmp(s, self, o, tmp)
      [] op = "assignSub" -> assignSubTmp(s, self, o, tmp)
      [] op = "assignMul" -> assignMulTmp(s, self, o, tmp)
      [] op = "assignDiv" -> assignDivTmp(s, self, o, tmp)
      [] op = "assignPow" -> assignPowTmp(s, self, o, tmp)

EngineOps == {"assign", "assignAdd", "assignSub", "assignMul", "assignDiv", "assignPow"}

\* the effect of a simple-shape call that leaves store s1: the caller's
\* variables and the record of the call
Perform(name, self, o, s1) ==
    /\ st' = callerVars(s1)
    /\ last' = [NoCall EXCEPT !.op = name, !.target = self, !.src = o,
                              !.pre = st, !.out = s1[self]]
    /\ pc' = "done"
    /\ UNCHANGED << run, order, dv >>

\* the store a call of the engine starts from
callStore == withLocals(st, NoDual, NoDual)

\* Dual::Dual(const R& other): a new dual constructed from an expression
Construct ==
    /\ pc = "ready" /\ order = 1
    /\ \E o \in Trees, r0 \in InitDuals(1) :
         LET s1 == assign(withLocals(st, r0, NoDual), "res", o)
         IN  /\ st' = callerVars(s1)
             /\ last' = [NoCall EXCEPT !.op = "construct", !.target = "res", !.src = o,
                                       !.pre = st, !.out = s1["res"]]
    /\ pc' = "done"
    /\ UNCHANGED << run, order, dv >>

\* Dual::operator=
OpAssign ==
    /\ pc = "ready" /\ order = 1
    /\ \E x \in Targets, o \in Trees : Perform("=", x, o, assign(callStore, x, o))

\* Dual::operator+=
OpAddAssign ==
    /\ pc = "ready" /\ order = 1
    /\ \E x \in Targets, o \in CompoundTrees : Perform("+=", x, o, assignAdd(callStore, x, o))

\* Dual::operator-=
OpSubAssign ==
    /\ pc = "ready" /\ order = 1
    /\ \E x \in Targets, o \in CompoundTrees : Perform("-=", x, o, assignSub(callStore, x, o))

\* Dual::operator*=
OpMulAssign ==
    /\ pc = "ready" /\ order = 1
    /\ \E x \in Targets, o \in CompoundTrees : Perform("*=", x, o, assignMul(callStore, x, o))

\* Dual::operator/=
OpDivAssign ==
    /\ pc = "ready" /\ order = 1
    /\ \E x \in Targets, o \in CompoundTrees : Perform("/=", x, o, assignDiv(callStore, x, o))

\* a direct call assignPow(self, other)
CallAssignPow ==
    /\ pc = "ready" /\ order = 1
    /\ \E x \in Targets, o \in Exponents :
         Perform("assignPow", x, o, assignPow(callStore, x, o))

\* a direct call of a scratch-accepting shape, op(self, other, tmp)
CallScratch ==
    /\ pc = "ready" /\ order = 1
    /\ \E op \in EngineOps, x \in Targets, t0 \in ScratchDuals :
       \E o \in Sources(op) :
         LET s1 == scratchShape(op, withLocals(st, NoDual, t0), x, o, "tmp")
         IN  /\ st' = callerVars(s1)
             /\ last' = [NoCall EXCEPT !.op = op, !.target = x, !.src = o,
                                       !.pre = st, !.tmp0 = t0, !.out = s1[x]]
    /\ pc' = "done"
    /\ UNCHANGED << run, order, dv >>

\* seed(wrt(...))
Seed ==
    /\ pc = "ready"
    /\ \E w \in WrtLists(order) :
         /\ st' = seed(st, order, wrt(w))
         /\ last' = [NoCall EXCEPT !.op = "seed", !.w = w, !.pre = st]
    /\ pc' = "done"
    /\ UNCHANGED << run, order, dv >>

\* unseed(wrt(...))
Unseed ==
    /\ pc = "ready"
    /\ \E w \in WrtLists(order) :
         /\ st' = unseed(st, order, wrt(w))
         /\ last' = [NoCall EXCEPT !.op = "unseed", !.w = w, !.pre = st]
    /\ pc' = "done"
    /\ UNCHANGED << run, order, dv >>

(***************************************************************************)
(* derivative(f, wrt, args...), one action per statement.  The function f  *)
(* returns a dual: for first-order duals the reduction of a tree over its  *)
(* arguments, for higher orders one of its arguments or a number.          *)
(***************************************************************************)
\* the coefficients c of the functions c * x
Coefficients == { Num(c) : c \in (0 - MaxVal)..MaxVal }

\* c * x, built as the fused node
Fused == { NumberDualMulExpr(Scalar(c), a) : c \in Coefficients, a \in Leaves }

\* pow(x, 3)
Cubes == { PowExpr(a, Scalar(Num(3))) : a \in Leaves }

\* x * y and x * y * z = (x * y) * z
Products ==
    { MulExpr(a, b) : a \in Leaves, b \in Leaves }
    \cup { MulExpr(MulExpr(a, b), c) : a \in Leaves, b \in Leaves, c \in Leaves }

Functions(ord) ==
    CASE ord = 1 -> Leaves \cup Literals \cup Arith1 \cup Fused \cup Cubes
      [] ord = 2 -> Leaves \cup Literals \cup Products
      [] OTHER -> Leaves \cup Literals

\* the second-order duals of the caller and the dual f constructs
withResult(s) == [l \in Vars \cup {"res"} |-> IF l \in Vars THEN s[l] ELSE Dual(NoDual, NoDual)]

\* auto res = f(args...)
callFunction(s, ord, f) ==
    IF ord = 1 THEN eval(withLocals(s, NoDual, NoDual), f)
    ELSE IF isDual(f) THEN s[f.ref]
    ELSE IF isNumber(f) THEN assignNumberOrder(ord, f.c)
    ELSE engineNested("assign", withResult(s), "res", f)["res"]

\* seed<Duals&...>(wrt)
DerivativeSeed ==
    /\ pc = "ready"
    /\ \E f \in Functions(order), w \in WrtLists(order) :
         dv' = [NoDeriv EXCEPT !.f = f, !.w = w, !.pre = st, !.trace = << "seed" >>]
    /\ st' = seed(st, order, wrt(dv'.w))
    /\ pc' = "seeded"
    /\ UNCHANGED << run, order, last >>

\* auto res = f(args...)
DerivativeCall ==
    /\ pc = "seeded"
    /\ dv' = [dv EXCEPT !.res = callFunction(st, order, dv.f), !.seeded = st,
                        !.trace = Append(dv.trace, "call")]
    /\ pc' = "called"
    /\ UNCHANGED << run, order, st, last >>

\* unseed<Duals&...>(wrt)
DerivativeUnseed ==
    /\ pc = "called"
    /\ st' = unseed(st, order, wrt(dv.w))
    /\ dv' = [dv EXCEPT !.trace = Append(dv.trace, "unseed")]
    /\ pc' = "unseeded"
    /\ UNCHANGED << run, order, last >>

\* return derivative<std::tuple_size<decltype(wrt)>::value>(res)
DerivativeReturn ==
    /\ pc = "unseeded"
    /\ dv' = [dv EXCEPT !.ret = derivativeOrder(Len(dv.w), dv.res),
                        !.trace = Append(dv.trace, "return")]
    /\ pc' = "returned"
    /\ UNCHANGED << run, order, st, last >>

\* derivative<n>(x) on one of the caller's duals, as they are initially or
\* as seed(wrt(...)) has left them
CallDerivative ==
    /\ pc = "ready" \/ (pc = "done" /\ last.op = "seed")
    /\ \E x \in Vars, n \in 0..order :
         LET res == derivative(order, n, st[x])
         IN  last' = [NoCall EXCEPT !.op = "derivative", !.target = x, !.n = n,
                                   !.pre = st, !.wf = res.wf, !.out = res.v]
    /\ pc' = "done"
    /\ UNCHANGED << run, order, st, dv >>

Comparisons == {"==", "!=", "<=", ">=", "<", ">"}

\* the operands of a comparison: scalars, duals and, for first-order duals,
\* expressions
CompareOperands(ord) ==
    IF ord = 1 THEN Leaves \cup Literals \cup Arith1 \cup Pow1 ELSE Leaves \cup Literals

\* l cmp r, at least one of l and r a dual or an expression; an expression
\* is compared with a scalar or a dual
Compare ==
    /\ pc = "ready"
    /\ \E cmp \in Comparisons, l \in CompareOperands(order), r \in CompareOperands(order) :
         /\ ~(isNumber(l) /\ isNumber(r))
         /\ l \in Leaves \cup Literals \/ r \in Leaves \cup Literals
         /\ last' = [NoCall EXCEPT !.op = "compare", !.cmp = cmp, !.src = l, !.rhs = r,
                                   !.pre = st,
                                   !.bool = compare(callStore, order, cmp, l, r)]
    /\ pc' = "done"
    /\ UNCHANGED << run, order, st, dv >>

\* the expressions built: operators on variables and literals, on these
\* results as temporaries and as auto variables, and double negations
UnaryOperators == {"pos", "neg", "inv"}

BinaryOperators == {"add", "sub", "mul", "div", "pow"}

Atoms == { Var(v) : v \in Vars } \cup { Lit(c) : c \in Scalars }

Applied(A, B) ==
    { Un(op, b) : op \in UnaryOperators, b \in { b \in B : b.t # "lit" } }
    \cup { Bin(op, p[1], p[2]) : op \in BinaryOperators,
                                 p \in { p \in A \X B : p[1].t # "lit" \/ p[2].t # "lit" } }

Terms1 == Applied(Atoms, Atoms)

Operands1 == Terms1 \cup { Auto(t) : t \in Terms1 }

\* (-x), (1/x) and variables holding them
Signed ==
    { Un(op, Var(v)) : op \in {"neg", "inv"}, v \in Vars }
    \cup { Auto(Un(op, Var(v))) : op \in {"neg", "inv"}, v \in Vars }

\* the scalars multiplied onto scalar * dual and onto negations
FoldScalars == Scalars \cup { Num(0 - 1), Zero, Num(3) }

\* c1 * (c2 * x) and c1 * (-e)
Folding ==
    { Bin("mul", Lit(c1), Bin("mul", Lit(c2), Var(v))) :
          c1 \in FoldScalars, c2 \in Scalars, v \in Vars }
    \cup { Bin("mul", Lit(c1), Un("neg", e)) :
              c1 \in FoldScalars, e \in Operands1 \cup { Var(v) : v \in Vars } }

Terms ==
    Atoms \cup Terms1
    \cup Applied({Var("x")} \cup { Lit(c) : c \in Scalars }, Operands1)
    \cup { Bin(op, t, a) : op \in BinaryOperators \ {"pow"}, t \in Operands1,
                           a \in {Var("x")} \cup { Lit(c) : c \in Scalars } }
    \cup { Bin(op, t, u) : op \in {"add", "mul", "sub", "div"}, t \in Signed, u \in Signed }
    \cup { Un("neg", Un("neg", t)) : t \in Operands1 }
    \cup { Un("neg", Un("neg", Un("neg", Var(v)))) : v \in Vars }
    \cup Folding

\* auto r = <expression>: the operators build the tree
BuildExpression ==
    /\ pc = "ready" /\ order = 1
    /\ \E t \in Terms :
         LET res == construct(st, t)
         IN  last' = [NoCall EXCEPT !.op = "build", !.term = t, !.pre = st,
                                   !.wf = res.wf,
                                   !.tree = IF res.wf THEN res.v ELSE Scalar(NaN)]
    /\ pc' = "done"
    /\ UNCHANGED << run, order, st, dv >>


\* the locations of the duals declared by the bodies of the engine
LocalNames == << "local1", "local2", "local3", "local4" >>

\* the store of a call of the engine: the caller's variables, the dual under
\* construction, the caller's scratch dual and the duals the bodies declare
runStore(s) ==
    [l \in Vars \cup {"res", "tmp", "local"} \cup { LocalNames[i] : i \in DOMAIN LocalNames } |->
        IF l \in Vars THEN s[l] ELSE IF l = "tmp" THEN Dual(Zero, Zero) ELSE NoDual]

\* the calls followed statement by statement
ReduceOps == {"assign", "assignAdd", "assignMul"}

\* two-operand nodes over two-operand nodes, negations and inversions
ReduceNested ==
    { AddExpr(a, t) : a \in {DualRef("y")}, t \in Linear1 }
    \cup { AddExpr(t, a) : a \in {DualRef("y")}, t \in Linear1 }
    \cup { MulExpr(a, t) : a \in {DualRef("y")}, t \in Linear1 }
    \cup { MulExpr(t, a) : a \in {DualRef("y")}, t \in Linear1 }
    \cup { AddExpr(AddExpr(a, a), MulExpr(a, a)) : a \in Leaves }
    \cup { MulExpr(AddExpr(a, a), MulExpr(a, a)) : a \in Leaves }

ReduceTrees == Leaves \cup Literals \cup Arith1 \cup ReduceNested

\* a call of the engine starts: construction of a dual (target res),
\* operator=, operator+=, operator*= or the scratch-accepting shape
ReduceBegin ==
    /\ pc = "ready" /\ order = 1
    /\ \E fn \in ReduceOps, x \in Targets \cup {"res"}, o \in ReduceTrees,
          tmp \in {NoTmp, "tmp"} :
         /\ x = "res" => fn = "assign"
         /\ run' = [stack |-> << Call(fn, x, o, tmp, << >>) >>, s |-> runStore(st),
                    pre |-> st, n |-> 0, log |-> << >>,
                    root |-> Call(fn, x, o, tmp, << >>)]
    /\ pc' = "reducing"
    /\ UNCHANGED << order, st, last, dv >>

\* the next pending call enters the body of its overload
ReduceCall ==
    /\ pc = "reducing" /\ run.stack # << >> /\ Head(run.stack).k = "call"
    /\ LET c == Head(run.stack)
           n1 == IF declares(c) THEN run.n + 1 ELSE run.n
       IN  run' = [run EXCEPT !.stack = statements(c, LocalNames[run.n + 1]) \o Tail(run.stack),
                              !.n = n1,
                              !.log = Append(run.log, c)]
    /\ UNCHANGED << order, st, pc, last, dv >>

\* the next pending body that calls no other overload is executed
ReducePrim ==
    /\ pc = "reducing" /\ run.stack # << >> /\ Head(run.stack).k = "prim"
    /\ LET p == Head(run.stack)
       IN  /\ run' = [run EXCEPT !.stack = Tail(run.stack),
                                  !.s = perform(run.s, p),
                                  !.log = Append(run.log, p)]
           /\ st' = callerVars(run'.s)
    /\ UNCHANGED << order, pc, last, dv >>

\* the outermost call returns
ReduceReturn ==
    /\ pc = "reducing" /\ run.stack = << >>
    /\ last' = [NoCall EXCEPT !.op = run.root.fn, !.target = run.root.self,
                              !.src = run.root.o, !.pre = run.pre,
                              !.out = run.s[run.root.self]]
    /\ pc' = "done"
    /\ UNCHANGED << order, st, dv, run >>

\* the operators of the table of apply
ApplyOps ==
    { "NegOp", "InvOp", "SinOp", "CosOp", "TanOp", "ArcSinOp", "ArcCosOp", "ArcTanOp",
      "ExpOp", "LogOp", "Log10Op", "SqrtOp", "AbsOp" }

\* the operands of a function: a dual, a number, a sum, a product, a negation
FunctionOperands == Leaves \cup Literals \cup Arith1

\* x = F(e) and dual res = F(e) for a unary operator F: assign(self, UnaryExpr)
AssignFunction ==
    /\ pc = "ready" /\ order = 1
    /\ \E op \in ApplyOps, x \in Targets \cup {"res"}, e \in FunctionOperands :
         LET o == UnaryExpr(op, e)
             s1 == assign(callStore, x, o)
         IN  /\ st' = callerVars(s1)
             /\ last' = [NoCall EXCEPT !.op = "function", !.target = x, !.src = o,
                                       !.pre = st, !.out = s1[x]]
    /\ pc' = "done"
    /\ UNCHANGED << run, order, dv >>

\* the effect of eval(expr), of val(expr) = val(eval(expr)) and of
\* expr == r = (val(expr) == val(r)), r a dual or a scalar, where eval
\* leaves store s1: the caller's variables and the record of the call
Evaluated(fn, l, r, s1) ==
    /\ st' = callerVars(s1)
    /\ last' = [NoCall EXCEPT !.op = fn, !.target = "local", !.src = l, !.rhs = r,
                              !.pre = st,
                              !.out = IF fn = "eval" THEN s1["local"]
                                      ELSE Dual(s1["local"].val, Zero),
                              !.bool = (fn = "operator==" /\ numEq(s1["local"].val,
                                                                  valOf(s1, 1, r)))]
    /\ pc' = "done"
    /\ UNCHANGED << run, order, dv >>

\* eval(expr), val(expr) and a comparison expr == r
Evaluate ==
    /\ pc = "ready" /\ order = 1
    /\ \/ \E fn \in {"eval", "val"}, l \in Trees :
            Evaluated(fn, l, Scalar(Zero), evalInto(callStore, l))
       \/ \E l \in Trees, r \in Leaves \cup Literals :
            Evaluated("operator==", l, r, evalInto(callStore, l))

InitFirstOrder == Init /\ order = 1

\* construction of a dual from an expression
NextConstruct == Construct

SpecConstruct == InitFirstOrder /\ [][NextConstruct]_vars

\* the assignment operators of Dual and assignPow
NextOperators ==
    \/ OpAssign
    \/ OpAddAssign
    \/ OpSubAssign
    \/ OpMulAssign
    \/ OpDivAssign
    \/ CallAssignPow

SpecOperators == InitFirstOrder /\ [][NextOperators]_vars

\* the scratch-accepting call shapes
NextScratch == CallScratch

SpecScratch == InitFirstOrder /\ [][NextScratch]_vars

\* seeding and derivative(f, wrt, args...)
NextSeed ==
    \/ Seed
    \/ Unseed
    \/ DerivativeSeed
    \/ DerivativeCall
    \/ DerivativeUnseed
    \/ DerivativeReturn

SpecSeed == Init /\ [][NextSeed]_vars

\* extraction of a derivative channel
NextExtract == Seed \/ CallDerivative

SpecExtract == Init /\ [][NextExtract]_vars

\* the comparison operators
NextCompare == Compare

SpecCompare == Init /\ [][NextCompare]_vars

\* the operator overloads
NextBuild == BuildExpression

SpecBuild == InitFirstOrder /\ [][NextBuild]_vars

\* a call of the engine, statement by statement
NextReduce == ReduceBegin \/ ReduceCall \/ ReducePrim \/ ReduceReturn

SpecReduce == InitFirstOrder /\ [][NextReduce]_vars

\* assignments of a function of the table
NextFunction == AssignFunction

SpecFunction == InitFirstOrder /\ [][NextFunction]_vars

\* the reductions into a new dual and the compound assignments
NextFrame ==
    \/ Evaluate
    \/ OpAddAssign
    \/ OpSubAssign
    \/ OpMulAssign
    \/ OpDivAssign

SpecFrame == InitFirstOrder /\ [][NextFrame]_vars

Next ==
    NextConstruct \/ NextOperators \/ NextScratch \/ NextSeed \/ NextExtract
    \/ NextCompare \/ NextBuild \/ NextReduce \/ NextFunction \/ NextFrame

Spec == Init /\ [][Next]_vars


(***************************************************************************)
(* Dual-number arithmetic: the (val, grad) pair of an expression by the    *)
(* sum, product, quotient and chain rules, independent of the engine.      *)
(***************************************************************************)
RECURSIVE dualValue(_, _)
\* the pair denoted by tree o at the operand values of store s
dualValue(s, o) ==
    CASE o.k = "Number" -> Dual(o.c, Zero)
      [] o.k = "Dual" -> s[o.ref]
      [] o.k = "DualVal" -> o.d
      [] isNegExpr(o) ->
            LET a == dualValue(s, o.r) IN Dual(QNeg(a.val), QNeg(a.grad))
      [] isInvExpr(o) ->
            LET a == dualValue(s, o.r)
            IN  Dual(QDiv(One, a.val), QNeg(QDiv(a.grad, QMul(a.val, a.val))))
      [] isAddExpr(o) ->
            LET a == dualValue(s, o.l)
                b == dualValue(s, o.r)
            IN  Dual(QAdd(a.val, b.val), QAdd(a.grad, b.grad))
      [] isMulExpr(o) ->
            LET a == dualValue(s, o.l)
                b == dualValue(s, o.r)
            IN  Dual(QMul(a.val, b.val),
                     QAdd(QMul(a.grad, b.val), QMul(a.val, b.grad)))
      [] isNumberDualMulExpr(o) ->
            LET b == dualValue(s, o.r)
            IN  Dual(QMul(o.l.c, b.val), QMul(o.l.c, b.grad))
      [] isPowExpr(o) ->
            LET a == dualValue(s, o.l)
                b == dualValue(s, o.r)
                p == PowQ(a.val, b.val)
            IN  Dual(p, QMul(p, QAdd(QMul(b.grad, LogQ(a.val)),
                                     QMul(b.val, QDiv(a.grad, a.val)))))

isFiniteDual(d) == IsFinite(d.val) /\ IsFinite(d.grad)

RECURSIVE defined(_, _)
\* every subexpression of o has a finite value and a finite derivative at s
defined(s, o) ==
    /\ isFiniteDual(dualValue(s, o))
    /\ CASE o.k = "UnaryExpr" -> defined(s, o.r)
         [] o.k = "BinaryExpr" -> defined(s, o.l) /\ defined(s, o.r)
         [] OTHER -> TRUE

(***************************************************************************)
(* C1.  Reducing a tree of scalars, duals, negation, inverse, addition,    *)
(* multiplication and scalar-times-dual nodes into a new dual that is no   *)
(* operand of the tree leaves in it the value and the derivative of the    *)
(* expression by dual-number arithmetic, wherever every subexpression has  *)
(* a finite value and derivative.                                          *)
(***************************************************************************)
C1_ReductionIsDualArithmetic ==
    (last.op = "construct" /\ last.src \in ArithTrees /\ defined(last.pre, last.src))
        => last.out = dualValue(last.pre, last.src)

\* a quotient x * (1 / y) has been reduced, with a derivative
C1_Witness ==
    /\ last.op = "construct"
    /\ last.src = MulExpr(DualRef("x"), InvExpr(DualRef("y")))
    /\ defined(last.pre, last.src)
    /\ last.pre["x"] = Dual(Num(1), Num(2))
    /\ last.pre["y"] = Dual(Num(2), Num(1))
    /\ last.out = Dual(Q(1, 2), Q(3, 4))


(***************************************************************************)
(* C2.  x = e for a tree e with x as an operand, in the forms x + y,       *)
(* y + x, x * y, y * x and pow(y, x): x ends holding the value and the     *)
(* derivative of e at the operand values that held before the assignment.  *)
(***************************************************************************)
SelfAssignTrees ==
    { AddExpr(DualRef("x"), DualRef("y")), AddExpr(DualRef("y"), DualRef("x")),
      MulExpr(DualRef("x"), DualRef("y")), MulExpr(DualRef("y"), DualRef("x")),
      PowExpr(DualRef("y"), DualRef("x")) }

C2_SelfAssignUsesPreState ==
    (/\ last.op = "="
     /\ last.target = "x"
     /\ last.src \in SelfAssignTrees
     /\ defined(last.pre, last.src))
        => last.out = dualValue(last.pre, last.src)

(***************************************************************************)
(* C3.  x op= e for a source e (scalar, dual or tree) that does not        *)
(* contain x, with x = (v, g) before and e = (ev, eg): += gives            *)
(* (v+ev, g+eg), -= gives (v-ev, g-eg), *= gives (v*ev, g*ev + v*eg),      *)
(* /= gives (v/ev, (g - (v/ev)*eg)/ev); a scalar has eg = 0.  Stated where *)
(* every subexpression of e is finite and, for /=, ev is not 0.            *)
(***************************************************************************)
compound(op, x, e) ==
    CASE op = "+=" -> Dual(QAdd(x.val, e.val), QAdd(x.grad, e.grad))
      [] op = "-=" -> Dual(QSub(x.val, e.val), QSub(x.grad, e.grad))
      [] op = "*=" -> Dual(QMul(x.val, e.val),
                           QAdd(QMul(x.grad, e.val), QMul(x.val, e.grad)))
      [] op = "/=" -> Dual(QDiv(x.val, e.val),
                           QDiv(QSub(x.grad, QMul(QDiv(x.val, e.val), e.grad)), e.val))

CompoundOps == {"+=", "-=", "*=", "/="}

C4_AccumulateNegationInverse ==
    /\ (/\ last.op = "+="
        /\ isNegExpr(last.src) \/ isInvExpr(last.src)
        /\ last.target \in operands(last.src)
        /\ defined(last.pre, last.src))
          => last.out = compound("+=", last.pre[last.target],
                                 dualValue(last.pre, last.src))
    /\ (last.op = "+=" /\ last.target = "x" /\ last.src = NegExpr(DualRef("x")))
          => last.out = Dual(Zero, Zero)

\* x += 1/(x * y) has been performed on x = (1, 2), y = (2, 1)
C4_Witness ==
    /\ last.op = "+="
    /\ last.target = "x"
    /\ last.src = InvExpr(MulExpr(DualRef("x"), DualRef("y")))
    /\ last.pre["x"] = Dual(Num(1), Num(2))
    /\ last.pre["y"] = Dual(Num(2), Num(1))
    /\ last.out = Dual(Q(3, 2), Q(3, 4))


(***************************************************************************)
(* C5.  For each of assign, assignAdd, assignSub, assignMul, assignDiv and *)
(* assignPow, every target and every source tree, the call with a scratch  *)
(* dual leaves the target with the same (val, grad) as the call without    *)
(* it, whatever the scratch dual held on entry.                            *)
(***************************************************************************)
C5_ScratchShapeAgrees ==
    last.op \in EngineOps
        => last.out = simpleShape(last.op, withLocals(last.pre, NoDual, NoDual),
                                  last.target, last.src)[last.target]

\* assignAdd(x, y * x, tmp) has run with a scratch dual that held (MaxVal, MaxGrad)
C5_Witness ==
    /\ last.op = "assignAdd"
    /\ last.target = "x"
    /\ last.src = MulExpr(DualRef("y"), DualRef("x"))
    /\ last.tmp0 = Dual(Num(MaxVal), Num(MaxGrad))
    /\ last.pre["x"] = Dual(Num(1), Num(2))
    /\ last.pre["y"] = Dual(Num(2), Num(1))
    /\ last.out = Dual(Num(3), Num(7))


(***************************************************************************)
(* C6.  derivative(f, wrt, args...) seeds the variables of wrt, calls f    *)
(* once, unseeds the variables of wrt and returns derivative<N> of the     *)
(* result of f, N the number of variables of wrt, in this order; what it   *)
(* returns is the derivative computed while the variables were seeded,     *)
(* which the unseed step does not alter.                                   *)
(***************************************************************************)
DerivativeSteps == << "seed", "call", "unseed", "return" >>

\* the grad channel reached from d by `depth` steps into .val
RECURSIVE channel(_, _)
channel(d, depth) == IF depth = 0 THEN d.grad ELSE channel(d.val, depth - 1)

\* store s with the grad of first-order variable v set to g
withGrad(s, v, g) == [s EXCEPT ![v] = Dual(s[v].val, g)]

C6_DerivativeSteps ==
    /\ Len(dv.trace) <= Len(DerivativeSteps)
    /\ dv.trace = SubSeq(DerivativeSteps, 1, Len(dv.trace))
    /\ pc = "returned" =>
         /\ dv.trace = DerivativeSteps
         /\ \A i \in 1..Len(dv.w) :
              channel(dv.seeded[dv.w[i]], i - 1) = assignNumberOrder(order - i, One)
         /\ dv.ret = derivativeOrder(Len(dv.w), dv.res)
         /\ (order = 1 /\ defined(withGrad(dv.pre, dv.w[1], One), dv.f))
              => dv.ret = dualValue(withGrad(dv.pre, dv.w[1], One), dv.f).grad

\* derivative(x * y, wrt(y), x, y) has returned the derivative computed with
\* y.grad = 1, and y.grad is 0 again
C6_Witness ==
    /\ pc = "returned"
    /\ order = 1
    /\ dv.f = MulExpr(DualRef("x"), DualRef("y"))
    /\ dv.w = << "y" >>
    /\ dv.pre["x"] = Dual(Num(2), Num(0))
    /\ dv.pre["y"] = Dual(Num(1), Num(2))
    /\ dv.ret = Num(2)
    /\ st["y"].grad = Zero

(***************************************************************************)
(* C7.  After derivative(f, wrt, args...) has returned, every variable of  *)
(* wrt has its value unchanged and its seeded grad channel equal to 0, so  *)
(* a variable whose seeded channel was 0 before the call is in its         *)
(* pre-call state.  For nested duals the value is val(x) and the seeded    *)
(* channel of the i-th variable lies i-1 steps into .val.                  *)
(***************************************************************************)
C7_DerivativeRestores ==
    pc = "returned" =>
        \A i \in 1..Len(dv.w) :
            LET v == dv.w[i]
            IN  /\ val(order, st[v]) = val(order, dv.pre[v])
                /\ order = 1 => st[v].val = dv.pre[v].val
                /\ channel(st[v], i - 1) = assignNumberOrder(order - i, Zero)
                /\ (\A j \in 1..Len(dv.w) :
                       dv.w[j] = v =>
                          channel(dv.pre[v], j - 1) = assignNumberOrder(order - j, Zero))
                     => st[v] = dv.pre[v]

\* derivative(f, wrt(x), ...) has returned for an x that entered with grad 2
C7_Witness ==
    /\ pc = "returned"
    /\ order = 1
    /\ dv.w = << "x" >>
    /\ dv.pre["x"] = Dual(Num(1), Num(2))
    /\ st["x"] = Dual(Num(1), Zero)

(***************************************************************************)
(* C8.  For a first-order dual x, seed(wrt(x)) sets x.grad to 1 and        *)
(* unseed(wrt(x)) sets x.grad to 0, whatever x.grad was, and neither       *)
(* changes x.val.                                                          *)
(***************************************************************************)
C8_SeedUnseedFirstOrder ==
    (order = 1 /\ last.op \in {"seed", "unseed"}) =>
        LET x == last.w[1]
        IN  /\ st[x].val = last.pre[x].val
            /\ last.op = "seed" => st[x].grad = One
            /\ last.op = "unseed" => st[x].grad = Zero

\* unseed(wrt(x)) has run on x = (2, 2)
C8_Witness ==
    /\ order = 1
    /\ last.op = "unseed"
    /\ last.w = << "x" >>
    /\ last.pre["x"] = Dual(Num(2), Num(2))
    /\ st["x"] = Dual(Num(2), Zero)


\* the variables listed in w
listed(w) == { w[i] : i \in 1..Len(w) }

(***************************************************************************)
(* C9.  After seed(wrt(...)) the derivative channel of each chosen         *)
(* variable is 1 and the derivative channel of every other variable is 0,  *)
(* whatever it was before seeding.                                         *)
(***************************************************************************)
C9_OthersZeroAfterSeed ==
    last.op = "seed" =>
        /\ \A i \in 1..Len(last.w) :
             channel(st[last.w[i]], i - 1) = assignNumberOrder(order - i, One)
        /\ \A v \in Vars \ listed(last.w) :
             st[v].grad = assignNumberOrder(order - 1, Zero)

(***************************************************************************)
(* C9, as the code has it.  After seed(wrt(...)) the derivative channel of *)
(* each chosen variable is 1 and every other variable is as it was before  *)
(* seeding: its derivative channel is 0 only if it was 0 before.           *)
(***************************************************************************)
C9_OthersUnchangedAfterSeed ==
    last.op = "seed" =>
        /\ \A i \in 1..Len(last.w) :
             channel(st[last.w[i]], i - 1) = assignNumberOrder(order - i, One)
        /\ \A v \in Vars \ listed(last.w) : st[v] = last.pre[v]

\* seed(wrt(x)) has run while y.grad was 2, and y.grad is still 2
C9_Witness ==
    /\ order = 1
    /\ last.op = "seed"
    /\ last.w = << "x" >>
    /\ last.pre["x"].grad = Zero
    /\ last.pre["y"].grad = Num(2)
    /\ st["x"].grad = One
    /\ st["y"].grad = Num(2)

RECURSIVE gradSteps(_, _)
\* the channel reached after n successive .grad steps from d
gradSteps(n, d) == IF n = 0 THEN d ELSE gradSteps(n - 1, d).grad

(***************************************************************************)
(* C11.  derivative<order>(d) returns d.val for order 0, d.grad for order  *)
(* 1 and, for order N >= 2, the channel reached after N successive .grad   *)
(* steps from d; it never changes d.                                       *)
(***************************************************************************)
C11_DerivativeOrder ==
    last.op = "derivative" =>
        /\ st = last.pre
        /\ last.wf
        /\ last.out = IF last.n = 0 THEN last.pre[last.target].val
                      ELSE gradSteps(last.n, last.pre[last.target])

\* C11 for the orders 1..order of the dual: the part of the claim the code
\* meets
C11_PositiveOrders ==
    (last.op = "derivative" /\ last.n >= 1) =>
        /\ st = last.pre
        /\ last.wf
        /\ last.out = gradSteps(last.n, last.pre[last.target])

\* derivative<2>(x) of a second-order dual seeded by wrt(x, y) is
\* x.grad.grad = 0, while x.grad.val = 1
C11_PositiveOrdersWitness ==
    /\ order = 2
    /\ last.op = "derivative"
    /\ last.n = 2
    /\ last.target = "x"
    /\ st["x"].grad = Dual(One, Zero)
    /\ last.out = Zero

RECURSIVE scalarValue(_, _, _)
\* the innermost scalar value of tree o at the operand values of store s,
\* by real arithmetic on the values alone
scalarValue(s, ord, o) ==
    CASE o.k = "Number" -> o.c
      [] o.k = "Dual" -> val(ord, s[o.ref])
      [] o.k = "DualVal" -> val(ord, o.d)
      [] isNegExpr(o) -> QNeg(scalarValue(s, ord, o.r))
      [] isInvExpr(o) -> QDiv(One, scalarValue(s, ord, o.r))
      [] isAddExpr(o) -> QAdd(scalarValue(s, ord, o.l), scalarValue(s, ord, o.r))
      [] isMulExpr(o) \/ isNumberDualMulExpr(o) ->
             QMul(scalarValue(s, ord, o.l), scalarValue(s, ord, o.r))
      [] isPowExpr(o) -> PowQ(scalarValue(s, ord, o.l), scalarValue(s, ord, o.r))

\* the stores that differ from s in derivative channels only
gradVariants(s, ord) ==
    { s2 \in [Vars -> InitDuals(ord)] : \A v \in Vars : val(ord, s2[v]) = val(ord, s[v]) }

returnedFrom(ord, f, w) == pc = "returned" /\ order = ord /\ dv.f = f /\ dv.w = w

(***************************************************************************)
(* C13.  For every tracked first-order variable x,                         *)
(* derivative(x => x*x, wrt(x), x) equals 2*val(x).                        *)
(***************************************************************************)
C13_SquareDerivative ==
    \A v \in Vars :
        returnedFrom(1, MulExpr(DualRef(v), DualRef(v)), << v >>) =>
            dv.ret = QMul(Num(2), dv.pre[v].val)

\* derivative(x => x*x, wrt(x), x) has returned 4 for x = 2, whose grad was
\* 2 before the call
C13_Witness ==
    /\ returnedFrom(1, MulExpr(DualRef("x"), DualRef("x")), << "x" >>)
    /\ dv.pre["x"] = Dual(Num(2), Num(2))
    /\ dv.ret = Num(4)

C17_CubeDerivative ==
    \A v \in Vars :
        returnedFrom(1, PowExpr(DualRef(v), Scalar(Num(3))), << v >>) =>
            dv.ret = QMul(Num(3), QMul(dv.pre[v].val, dv.pre[v].val))

\* C17 away from 0: the part of the claim the code meets
C17_CubeDerivativeAwayFromZero ==
    \A v \in Vars :
        ( /\ returnedFrom(1, PowExpr(DualRef(v), Scalar(Num(3))), << v >>)
          /\ dv.pre[v].val # Zero )
        => dv.ret = QMul(Num(3), QMul(dv.pre[v].val, dv.pre[v].val))

\* derivative(x => pow(x, 3), wrt(x), x) has returned NaN at x = 0
C17_NaNAtZero ==
    /\ returnedFrom(1, PowExpr(DualRef("x"), Scalar(Num(3))), << "x" >>)
    /\ dv.pre["x"].val = Zero
    /\ dv.res = Dual(Zero, NaN)
    /\ dv.ret = NaN

(***************************************************************************)
(* C14.  For every scalar c and every tracked first-order variable x,      *)
(* derivative(x => c * x, wrt(x), x) equals c, the product c * x being     *)
(* built as the fused scalar-times-dual node.                              *)
(***************************************************************************)
C14_ScaledDerivative ==
    \A v \in Vars, c \in Coefficients :
        LET built == construct(st, Bin("mul", Lit(c), Var(v)))
        IN  /\ built = Returns(NumberDualMulExpr(Scalar(c), DualRef(v)))
            /\ returnedFrom(1, built.v, << v >>) => dv.ret = c

\* derivative(x => -2 * x, wrt(x), x) has returned -2 at x = 1, whose grad
\* was 2 before the call
C14_Witness ==
    /\ returnedFrom(1, NumberDualMulExpr(Scalar(Num(0 - 2)), DualRef("x")), << "x" >>)
    /\ dv.pre["x"] = Dual(One, Num(2))
    /\ dv.res = Dual(Num(0 - 2), Num(0 - 2))
    /\ dv.ret = Num(0 - 2)

RECURSIVE snapshot(_, _)
\* the tree with every operand replaced by its value in store s: trees
\* with equal snapshots differ only in holding operands by reference or
\* by value
snapshot(s, o) ==
    CASE o.k = "Dual" -> DualVal(s[o.ref])
      [] o.k = "ExprRef" -> snapshot(s, o.e)
      [] o.k = "UnaryExpr" -> UnaryExpr(o.op, snapshot(s, o.r))
      [] o.k = "BinaryExpr" -> BinaryExpr(o.op, snapshot(s, o.l), snapshot(s, o.r))
      [] OTHER -> o

\* the dual a built tree reduces to
reduced(s, o) == eval(withLocals(s, NoDual, NoDual), reducible(o))

\* the expression built last is -(-e)
doubleNegation == last.op = "build" /\ last.term.t = "unary" /\ last.term.op = "neg"
                  /\ last.term.a.t = "unary" /\ last.term.a.op = "neg"

(***************************************************************************)
(* C18.  For every dual or expression e, constructing -(-e) yields the     *)
(* tree e itself, no negation node being added, and reducing it gives the  *)
(* same val and grad as reducing e.                                        *)
(***************************************************************************)
C18_DoubleNegation ==
    doubleNegation =>
        LET e == construct(last.pre, last.term.a.a)
        IN  e.wf =>
              /\ last.wf
              /\ snapshot(last.pre, last.tree) = snapshot(last.pre, e.v)
              /\ reduced(last.pre, last.tree) = reduced(last.pre, e.v)

\* C18 where -(-e) is built: the part of the claim the code meets
C18_DoubleNegationWhereBuilt ==
    (doubleNegation /\ last.wf) =>
        LET e == construct(last.pre, last.term.a.a)
        IN  /\ e.wf
            /\ snapshot(last.pre, last.tree) = snapshot(last.pre, e.v)
            /\ reduced(last.pre, last.tree) = reduced(last.pre, e.v)

\* -(-x) is built as a copy of x
C18_BuiltForDual ==
    /\ doubleNegation /\ last.term.a.a = Var("x")
    /\ st["x"] = Dual(Num(2), One)
    /\ last.wf /\ last.tree = DualVal(Dual(Num(2), One))

\* -(-(x + y)) is not built
C18_NotBuiltForSum ==
    /\ doubleNegation /\ last.term.a.a = Bin("add", Var("x"), Var("y"))
    /\ ~last.wf

RECURSIVE scalarsOf(_)
\* the scalars held in a tree
scalarsOf(o) ==
    CASE o.k = "Number" -> {o.c}
      [] o.k = "ExprRef" -> scalarsOf(o.e)
      [] o.k = "UnaryExpr" -> scalarsOf(o.r)
      [] o.k = "BinaryExpr" -> scalarsOf(o.l) \cup scalarsOf(o.r)
      [] OTHER -> {}

RECURSIVE literalsOf(_)
\* the scalar operands of an expression
literalsOf(t) ==
    CASE t.t = "lit" -> {t.c}
      [] t.t = "auto" -> literalsOf(t.e)
      [] t.t = "unary" -> literalsOf(t.a)
      [] t.t = "binary" -> literalsOf(t.a) \cup literalsOf(t.b)
      [] OTHER -> {}

\* the scalars obtained from the scalars L by negation, reciprocal and up
\* to three multiplications
folded(L) ==
    LET U == L \cup { QNeg(c) : c \in L } \cup { QDiv(One, c) : c \in L }
                \cup { QNeg(QDiv(One, c)) : c \in L }
        P2 == U \cup { QMul(a, b) : a \in U, b \in U }
    IN  P2 \cup { QMul(a, b) : a \in P2, b \in P2 }

RECURSIVE withoutCopies(_)
\* the tree without the values of the duals it holds by value
withoutCopies(o) ==
    CASE o.k = "DualVal" -> DualVal(Dual(Zero, Zero))
      [] o.k = "ExprRef" -> ExprRef(withoutCopies(o.e))
      [] o.k = "UnaryExpr" -> UnaryExpr(o.op, withoutCopies(o.r))
      [] o.k = "BinaryExpr" -> BinaryExpr(o.op, withoutCopies(o.l), withoutCopies(o.r))
      [] OTHER -> o

\* a store whose duals are all (0, 0)
zeroStore == [v \in Vars |-> Dual(Zero, Zero)]

(***************************************************************************)
(* C19.  Every operator overload only builds structure: for every operand  *)
(* combination, scalar*(scalar*dual), -(scalar*dual), scalar*(-expr) and   *)
(* expr/scalar included, constructing the tree changes the val and grad of *)
(* no dual operand and computes no numeric value from its operands: every  *)
(* scalar in the tree is a scalar operand.                                 *)
(***************************************************************************)
C19_OnlyStructure ==
    (last.op = "build" /\ last.wf) =>
        /\ st = last.pre
        /\ scalarsOf(last.tree) \subseteq literalsOf(last.term)

(***************************************************************************)
(* C19, as the code has it.  Constructing a tree changes the val and grad  *)
(* of no dual operand and computes nothing from the duals: the tree is the *)
(* same whatever the duals hold, up to the copies of duals it holds by     *)
(* value.  The scalar operands are computed with at construction: a scalar *)
(* in the tree is a scalar operand or obtained from scalar operands by     *)
(* negation (-(c*x), c*(-e), e - c), multiplication (c1*(c2*x)) and        *)
(* reciprocal (e/c).                                                       *)
(***************************************************************************)
C19_OnlyScalarsFolded ==
    (last.op = "build" /\ last.wf) =>
        /\ st = last.pre
        /\ scalarsOf(last.tree) \subseteq folded(literalsOf(last.term))
        /\ LET z == construct(zeroStore, last.term)
           IN  z.wf /\ withoutCopies(z.v) = withoutCopies(last.tree)

\* 2 * (2 * x) is built as the fused node 4 * x, x = (1, 2) being unchanged
C19_Witness ==
    /\ last.op = "build"
    /\ last.term = Bin("mul", Lit(Num(2)), Bin("mul", Lit(Num(2)), Var("x")))
    /\ last.wf /\ last.tree = NumberDualMulExpr(Scalar(Num(4)), DualRef("x"))
    /\ st["x"] = Dual(One, Num(2)) /\ last.pre = st

\* the expression built last is e * c with c a scalar and e not
productByScalar == last.op = "build" /\ last.term.t = "binary" /\ last.term.op = "mul"
                   /\ last.term.b.t = "lit" /\ last.term.a.t # "lit"

(***************************************************************************)
(* C20.  For every scalar c and every expression e (a plain dual, a        *)
(* negation, a fused scalar-times-dual node, or any other tree), e * c     *)
(* builds exactly the tree that c * e builds, with the scalar as the left  *)
(* operand.                                                                *)
(***************************************************************************)
C20_ScalarOnTheRight ==
    productByScalar =>
        LET ce == construct(last.pre, Bin("mul", last.term.b, last.term.a))
        IN  /\ last.wf
            /\ ce.wf
            /\ last.tree = ce.v
            /\ isNumber(last.tree.l)

\* C20 for the value: e * c keeps the scalar as the left operand of a
\* MulExpr node and, where c * e is built, reduces to the same dual
C20_SameValue ==
    productByScalar =>
        LET ce == construct(last.pre, Bin("mul", last.term.b, last.term.a))
            e == construct(last.pre, last.term.a)
        IN  e.wf =>
              /\ last.wf
              /\ last.tree = MulExpr(Scalar(last.term.b.c), e.v)
              /\ ce.wf => reduced(last.pre, last.tree) = reduced(last.pre, ce.v)

\* x * 2 is built as MulExpr(2, x), not as the fused node of 2 * x
C20_PlainNodeForDual ==
    /\ productByScalar /\ last.term.a = Var("x")
    /\ last.tree = MulExpr(Scalar(Num(2)), DualRef("x"))
    /\ construct(st, Bin("mul", Lit(Num(2)), Var("x"))).v
         = NumberDualMulExpr(Scalar(Num(2)), DualRef("x"))


(***************************************************************************)
(* The order in which the operands of a node are reduced.                  *)
(***************************************************************************)
isPrefix(p, q) == Len(p) <= Len(q) /\ SubSeq(q, 1, Len(p)) = p

\* the events of the nodes at and below position p
under(p) == { i \in DOMAIN run.log : isPrefix(p, run.log[i].path) }

\* every event below p precedes every event below q, and q is not entered
\* before p
before(p, q) ==
    \A j \in under(q) : under(p) # {} /\ \A k \in under(p) : k < j

\* assign reaches an addition or multiplication node
assignsTwoOperands(e) ==
    e.k = "call" /\ e.fn = "assign" /\ (isAddExpr(e.o) \/ isMulExpr(e.o))

\* assignAdd reaches an addition node, assignMul a multiplication node
accumulatesTwoOperands(e) ==
    /\ e.k = "call"
    /\ (e.fn = "assignAdd" /\ isAddExpr(e.o)) \/ (e.fn = "assignMul" /\ isMulExpr(e.o))

\* the call of the engine agrees with the engine taken as one step
reducedAsEngine ==
    LET c == run.root
        s1 == engine(c.fn, runStore(run.pre), c.self, c.o, c.tmp)
    IN  run.s[c.self] = s1[c.self] /\ callerVars(run.s) = callerVars(s1)

\* C21: whenever the engine reduces an addition or multiplication node with
\* two operands, in assign, assignAdd or assignMul and their scratch shapes,
\* every step of the right operand precedes every step of the left operand.
C21_RightBeforeLeft ==
    \A i \in DOMAIN run.log :
        LET e == run.log[i]
        IN  assignsTwoOperands(e) \/ accumulatesTwoOperands(e)
                => before(Append(e.path, "r"), Append(e.path, "l"))

\* C21 as the engine has it: assign reduces the right operand of an addition
\* or multiplication node before the left one; assignAdd on an addition node
\* and assignMul on a multiplication node accumulate the left operand before
\* the right one; the scratch shapes keep these orders.
C21_RightFirstOnlyInAssign ==
    \A i \in DOMAIN run.log :
        LET e == run.log[i]
        IN  /\ assignsTwoOperands(e)
                => before(Append(e.path, "r"), Append(e.path, "l"))
            /\ accumulatesTwoOperands(e)
                => before(Append(e.path, "l"), Append(e.path, "r"))

\* a finished call in which assign and an accumulating operation have each
\* reduced a node with two operands, in the simple and in the scratch shape
C21_Witness ==
    /\ pc = "done" /\ run.root.tmp # NoTmp
    /\ \E i, j \in DOMAIN run.log :
         assignsTwoOperands(run.log[i]) /\ accumulatesTwoOperands(run.log[j])
    /\ reducedAsEngine

\* x += (x + y): the left operand is accumulated first
C21_LeftAccumulatedFirst ==
    /\ pc = "done" /\ run.root.fn = "assignAdd" /\ isAddExpr(run.root.o)
    /\ run.log[2].path = << "l" >>

\* C22: assign(target, l + r) first assigns r into the target and then
\* accumulates l with assignAdd, assign(target, l * r) first assigns r and
\* then accumulates l with assignMul; nothing is done for l before the
\* reduction of r has finished.
C22_AssignThenAccumulate ==
    \A i \in DOMAIN run.log :
        LET e == run.log[i]
            l == Append(e.path, "l")
            r == Append(e.path, "r")
        IN  assignsTwoOperands(e) =>
                /\ before(r, l)
                /\ \A j \in under(r) :
                      (\A k \in under(r) : j <= k) =>
                          /\ j = i + 1
                          /\ run.log[j] = Call("assign", e.self, e.o.r, e.tmp, r)
                /\ \A j \in under(l) :
                      (\A k \in under(l) : j <= k) =>
                          run.log[j] = Call(IF isAddExpr(e.o) THEN "assignAdd" ELSE "assignMul",
                                            e.self, e.o.l, e.tmp, l)

\* x = (x + x) + (x * x) has been reduced: both operands are expressions
\* over the target
C22_Witness ==
    /\ pc = "done" /\ run.root.self = "x"
    /\ run.root = Call("assign", "x",
                        AddExpr(AddExpr(DualRef("x"), DualRef("x")),
                                MulExpr(DualRef("x"), DualRef("x"))), NoTmp, << >>)
    /\ Len(run.log) > 6
    /\ reducedAsEngine

\* the statement-by-statement engine and the engine as one step agree
ReducedAsEngine == pc = "done" => reducedAsEngine


(***************************************************************************)
(* Compound assignment with the target as the right operand.               *)
(***************************************************************************)
\* the sources of C23: the target itself and a scalar times the target
selfSource(op, x, o) ==
    o = DualRef(x) \/ (op = "*=" /\ isNumberDualMulExpr(o) /\ o.r = DualRef(x))

\* C23: compound assignment with x itself as the right operand gives
\* x_old op x_old: x += x is (2v, 2g), x -= x is (0, 0), x *= x is
\* (v*v, 2*v*g), x /= x is (1, 0), and x *= c*x is (c*v*v, 2*c*v*g).
C23_SelfCompound ==
    (last.op \in CompoundOps /\ selfSource(last.op, last.target, last.src))
        => LET v == last.pre[last.target].val
               g == last.pre[last.target].grad
               c == IF isDual(last.src) THEN One ELSE last.src.l.c
           IN  last.out =
                   (CASE last.op = "+=" -> Dual(QMul(Num(2), v), QMul(Num(2), g))
                      [] last.op = "-=" -> Dual(Zero, Zero)
                      [] last.op = "*=" ->
                            Dual(QMul(c, QMul(v, v)),
                                 QMul(QMul(Num(2), c), QMul(v, g)))
                      [] last.op = "/=" -> Dual(One, Zero))

\* the part of C23 the engine has: +=, -= and, for a value other than 0, /=
C23_SelfCompoundWithoutProduct ==
    (/\ last.op \in {"+=", "-=", "/="} /\ last.src = DualRef(last.target)
     /\ (last.op = "/=" => last.pre[last.target].val # Zero))
        => last.out = compound(last.op, last.pre[last.target], last.pre[last.target])

\* x *= x with x = (2, 1) has given (4, 6): the derivative 2 entered the
\* second term after the first statement had overwritten it
C23_ProductReadsOverwrittenGrad ==
    /\ last.op = "*=" /\ last.src = DualRef(last.target)
    /\ last.pre[last.target] = Dual(Num(2), One)
    /\ last.out = Dual(Num(4), Num(6))


(***************************************************************************)
(* The shapes the operators never build.                                   *)
(***************************************************************************)
RECURSIVE redundant(_)
\* the tree contains an addition of two negations, a multiplication of two
\* negations or of two inversions, a negation of a negation or an inversion
\* of an inversion
redundant(o) ==
    CASE o.k = "UnaryExpr" ->
            \/ isNegExpr(o) /\ isNegExpr(o.r)
            \/ isInvExpr(o) /\ isInvExpr(o.r)
            \/ redundant(o.r)
      [] o.k = "BinaryExpr" ->
            \/ isAddExpr(o) /\ isNegExpr(o.l) /\ isNegExpr(o.r)
            \/ isMulExpr(o) /\ isNegExpr(o.l) /\ isNegExpr(o.r)
            \/ isMulExpr(o) /\ isInvExpr(o.l) /\ isInvExpr(o.r)
            \/ redundant(o.l) \/ redundant(o.r)
      [] OTHER -> FALSE

\* the operand of a negation or inversion of a variable, written in place
\* or held in a variable declared with auto
signedVar(t, op) ==
    \/ t.t = "unary" /\ t.op = op /\ t.a.t = "var"
    \/ t.t = "auto" /\ t.e.t = "unary" /\ t.e.op = op /\ t.e.a.t = "var"

varOf(t) == IF t.t = "auto" THEN DualRef(t.e.a.v) ELSE DualRef(t.a.v)

RECURSIVE nodesOf(_)
\* the operators of the nodes of a tree
nodesOf(o) ==
    CASE o.k = "ExprRef" -> nodesOf(o.e)
      [] o.k = "UnaryExpr" -> {o.op} \cup nodesOf(o.r)
      [] o.k = "BinaryExpr" -> {o.op} \cup nodesOf(o.l) \cup nodesOf(o.r)
      [] OTHER -> {}

\* what the last expression built is built as
builtAs(t) ==
    LET res == construct(last.pre, t)
    IN  last.wf = res.wf /\ (res.wf => last.tree = res.v)

\* C25: subtraction and division are never tree nodes: a - b is built as
\* a + (-b) and a / b as a * inverse(b) (for a scalar b, a times the scalar
\* 1 / b), so every tree consists of addition, multiplication, negation,
\* inversion, pow and fused scalar-times-dual nodes only.
C25_NoSubtractionNoDivision ==
    last.op = "build" =>
        /\ last.wf => nodesOf(last.tree) \subseteq
                         {"AddOp", "MulOp", "NegOp", "InvOp", "PowOp", "NumberDualMulOp"}
        /\ LET t == last.term
           IN  t.t = "binary" =>
                 /\ t.op = "sub" => builtAs(Bin("add", t.a, Un("neg", t.b)))
                 /\ (t.op = "div" /\ t.b.t # "lit") => builtAs(Bin("mul", t.a, Un("inv", t.b)))
                 /\ (t.op = "div" /\ t.b.t = "lit")
                        => builtAs(Bin("mul", t.a, Lit(inverseNumber(t.b.c))))

\* (x - y) / x has been built, as (x + (-y)) * inverse(x)
C25_Witness ==
    /\ last.op = "build" /\ last.wf
    /\ last.term = Bin("div", Bin("sub", Var("x"), Var("y")), Var("x"))
    /\ last.tree = MulExpr(AddExpr(DualRef("x"), NegExpr(DualRef("y"))),
                            InvExpr(DualRef("x")))


(***************************************************************************)
(* Folding of scalar factors.                                              *)
(***************************************************************************)
isLit(t) == t.t = "lit"

isVar(t) == t.t = "var"

isProduct(t) == t.t = "binary" /\ t.op = "mul"

isNegation(t) == t.t = "unary" /\ t.op = "neg"

\* the expression built last is c1 * (c2 * x), -(c2 * x), c1 * (-e)
scalarTimesFused ==
    /\ last.op = "build" /\ isProduct(last.term) /\ isLit(last.term.a)
    /\ isProduct(last.term.b) /\ isLit(last.term.b.a) /\ isVar(last.term.b.b)

negatedFused ==
    /\ last.op = "build" /\ isNegation(last.term)
    /\ isProduct(last.term.a) /\ isLit(last.term.a.a) /\ isVar(last.term.a.b)

scalarTimesNegation ==
    /\ last.op = "build" /\ isProduct(last.term) /\ isLit(last.term.a)
    /\ isNegation(last.term.b) /\ ~isLit(last.term.b.a)
    /\ construct(last.pre, last.term.b.a).wf

\* the expression e of c1 * (-e), as a tree
negatedOperand == reducible(construct(last.pre, last.term.b.a).v)

\* the first two parts of C26: the fused nodes of c1 * (c2 * x) and -(c2 * x)
fusedFolded ==
    /\ scalarTimesFused =>
          LET c1 == last.term.a.c
              c2 == last.term.b.a.c
              x == DualRef(last.term.b.b.v)
          IN  /\ last.wf
              /\ last.tree = NumberDualMulExpr(Scalar(QMul(c1, c2)), x)
              /\ reduced(last.pre, last.tree)
                    = dualValue(last.pre, MulExpr(Scalar(c1), MulExpr(Scalar(c2), x)))
    /\ negatedFused =>
          LET c2 == last.term.a.a.c
              x == DualRef(last.term.a.b.v)
          IN  /\ last.wf
              /\ last.tree = NumberDualMulExpr(Scalar(QNeg(c2)), x)
              /\ reduced(last.pre, last.tree)
                    = dualValue(last.pre, NegExpr(MulExpr(Scalar(c2), x)))

\* c1 * (-e) is built as (-c1) * e is (a dual operand may be held as a copy
\* in one and by reference in the other), and reduces to the dual of
\* c1 * (-e)
negationFolded ==
    LET c1 == last.term.a.c
        other == construct(last.pre, Bin("mul", Lit(QNeg(c1)), last.term.b.a))
    IN  /\ other.wf
        /\ snapshot(last.pre, last.tree) = snapshot(last.pre, other.v)
        /\ defined(last.pre, negatedOperand) =>
              reduced(last.pre, last.tree)
                = dualValue(last.pre, MulExpr(Scalar(c1), NegExpr(negatedOperand)))

\* C26: c1 * (c2 * x) builds the fused node with scalar c1*c2 and operand x,
\* -(c2 * x) the fused node with scalar -c2, and c1 * (-e) the tree of
\* (-c1) * e; the reduced val and grad are those of the expression as
\* written.
C26_ScalarFolding ==
    /\ fusedFolded
    /\ scalarTimesNegation => last.wf /\ negationFolded

\* C26 where c1 * (-e) is built: for e a dual variable or a variable
\* declared with auto
C26_ScalarFoldingWhereBuilt ==
    /\ fusedFolded
    /\ (scalarTimesNegation /\ last.wf) => negationFolded

\* 3 * (2 * x) has been built as the fused node 6 * x
C26_FusedBuilt ==
    /\ scalarTimesFused /\ last.wf
    /\ last.term.a.c = Num(3)
    /\ last.tree = NumberDualMulExpr(Scalar(Num(6)), DualRef("x"))

\* 3 * (-(x + y)) is not built
C26_NotBuiltForSum ==
    /\ scalarTimesNegation /\ ~last.wf
    /\ last.term = Bin("mul", Lit(Num(3)), Un("neg", Bin("add", Var("x"), Var("y"))))


(***************************************************************************)
(* C27.  The table of the unary operators.                                 *)
(***************************************************************************)
\* F(v) of the table
tableValue(op, v) ==
    CASE op = "NegOp" -> QNeg(v)
      [] op = "InvOp" -> QDiv(One, v)
      [] op = "SinOp" -> std("sin", v)
      [] op = "CosOp" -> std("cos", v)
      [] op = "TanOp" -> std("tan", v)
      [] op = "ArcSinOp" -> std("asin", v)
      [] op = "ArcCosOp" -> std("acos", v)
      [] op = "ArcTanOp" -> std("atan", v)
      [] op = "ExpOp" -> std("exp", v)
      [] op = "LogOp" -> std("log", v)
      [] op = "Log10Op" -> std("log10", v)
      [] op = "SqrtOp" -> std("sqrt", v)
      [] op = "AbsOp" -> std("abs", v)

\* the multiplier of the table at v
tableMultiplier(op, v) ==
    CASE op = "NegOp" -> QNeg(One)
      [] op = "InvOp" -> QNeg(QMul(QDiv(One, v), QDiv(One, v)))
      [] op = "SinOp" -> std("cos", v)
      [] op = "CosOp" -> QNeg(std("sin", v))
      [] op = "TanOp" -> QMul(QDiv(One, std("cos", v)), QDiv(One, std("cos", v)))
      [] op = "ArcSinOp" -> QDiv(One, std("sqrt", QSub(One, QMul(v, v))))
      [] op = "ArcCosOp" -> QNeg(QDiv(One, std("sqrt", QSub(One, QMul(v, v)))))
      [] op = "ArcTanOp" -> QDiv(One, QAdd(One, QMul(v, v)))
      [] op = "ExpOp" -> std("exp", v)
      [] op = "LogOp" -> QDiv(One, v)
      [] op = "Log10Op" -> QDiv(One, QMul(ln10, v))
      [] op = "SqrtOp" -> QDiv(Q(1, 2), std("sqrt", v))
      [] op = "AbsOp" -> QDiv(v, std("abs", v))

\* the operand of the last function reduced into its target
operandReduced ==
    assign(withLocals(last.pre, NoDual, NoDual), last.target, last.src.r)[last.target]

\* C27: assigning F(e) for a unary operator F of the table leaves in the
\* target val = F(v) and grad = g * m, where (v, g) is e reduced into the
\* target and m the multiplier of the table evaluated at that v, the value
\* before apply overwrites it
C27_ApplyTable ==
    last.op = "function" =>
        last.out = Dual(tableValue(last.src.op, operandReduced.val),
                        QMul(operandReduced.grad,
                             tableMultiplier(last.src.op, operandReduced.val)))

\* sin of an expression with a derivative, assigned to one of its operands:
\* the multiplier cos v is read before val becomes sin v
C27_Witness ==
    /\ last.op = "function" /\ last.src.op = "SinOp"
    /\ last.target \in operands(last.src.r)
    /\ isFiniteDual(last.out) /\ last.out.grad # Zero
    /\ last.out.val # operandReduced.val


(***************************************************************************)
(* C28.  The channels seed and unseed write.                               *)
(***************************************************************************)
\* the paths from a value of order ord to its scalars
RECURSIVE paths(_)
paths(ord) ==
    IF ord = 0 THEN { << >> }
    ELSE { << c >> \o p : c \in {"val", "grad"}, p \in paths(ord - 1) }

\* the scalar of d at path p
RECURSIVE scalarAt(_, _)
scalarAt(d, p) == IF p = << >> THEN d ELSE scalarAt(d[Head(p)], Tail(p))

\* the path of the channel of the k-th listed variable: k-1 steps into val,
\* then grad
seededChannel(k) == [i \in 1..k |-> IF i < k THEN "val" ELSE "grad"]

\* the positions of the list whose channel of variable v holds path p
writtenBy(w, v, p) ==
    { k \in 1..Len(w) : w[k] = v /\ k <= Len(p) /\ isPrefix(seededChannel(k), p) }

\* path p leads, from the channel of position k on, through val only: the
\* value of the channel, not one of its inner derivative channels
valueOfChannel(k, p) == \A i \in (k + 1)..Len(p) : p[i] = "val"

FrameOps == {"eval", "val", "operator==", "+=", "-=", "*=", "/="}

\* the tree reduced into a new dual from the caller's variables s
reducedFrom(s, o) == assign(withLocals(s, NoDual, NoDual), "res", o)["res"]

\* C29: construction of a dual from a tree (eval constructs the dual it
\* returns), val, a comparison, or a compound assignment whose target is
\* not an operand of the tree leaves every operand dual of the tree exactly
\* as it was, val and grad, and the tree reduced again after the call gives
\* the result it gave before
C29_OperandsUnchanged ==
    (last.op \in FrameOps /\ last.target \notin operands(last.src)) =>
        /\ \A v \in operands(last.src) \cup operands(last.rhs) : st[v] = last.pre[v]
        /\ reducedFrom(st, last.src) = reducedFrom(last.pre, last.src)
        /\ last.op = "eval" => reducedFrom(st, last.src) = last.out

\* x *= y * y with y = (2, 1): x = (1, 2) has become (4, 12) and y is still
\* (2, 1)
C29_Witness ==
    /\ last.op = "*="
    /\ last.target = "x"
    /\ last.src = MulExpr(DualRef("y"), DualRef("y"))
    /\ last.pre["x"] = Dual(Num(1), Num(2))
    /\ last.pre["y"] = Dual(Num(2), Num(1))
    /\ st["x"] = Dual(Num(4), Num(12))
    /\ st["y"] = Dual(Num(2), Num(1))

=============================================================================
